---- MODULE Spec2Model ----
(***************************************************************************)
(* Conversation memory engine of interclaude (server/memory): storage.js,  *)
(* index.js (the orchestrator), and the indexer it calls; and the limit of *)
(* concurrent Claude invocations of the HTTP server (server/index.js).     *)
(*                                                                         *)
(* Text is a sequence of atoms.  An atom is a word, a punctuation          *)
(* character, or "---", which stands for a line made of three hyphens      *)
(* (a markdown horizontal rule) between two newlines.  Question texts are  *)
(* shorter than the 50 characters kept in an index summary.                *)
(*                                                                         *)
(* A file is held as the pieces of text the writer puts into it, and the   *)
(* parsers are the regular expressions of the source applied to those      *)
(* pieces.  Functions of a text alone are applied on their own to          *)
(* arguments drawn from small sets; the formatter of the context sees a    *)
(* text by its length.                                                     *)
(***************************************************************************)
EXTENDS Integers, Sequences, FiniteSets, TLC

\* ------------------------------------------------------------- bounds

\* total number of recordConversation calls
MaxCalls == 4
\* cap of the recent list (50 in storage.js), scaled down
RecentCap == 2
\* number of clock advances
MaxTicks == 1
\* number of recordConversation calls when calls overlap
MaxConcCalls == 2
\* number of clock advances when calls overlap
MaxConcTicks == 1
\* number of recordConversation calls when only such calls overlap
MaxRaceCalls == 3
\* largest maxResults and limit given to the retriever
MaxLimit == 3
\* most exchanges of a conversation given to generateConversationMarkdown
MaxExchanges == 3
\* recordConversation calls and clock advances on a failing file system
MaxFailCalls == 2
MaxFailTicks == 1
\* most matches given to formatContextForInjection, most exchanges of a match
MaxMatches == 2
MaxMatchExchanges == 2
\* most words of a text given to extractKeywords and to extractTopics
MaxWords == 4
\* most updateIndex calls behind an index given to saveIndex and loadIndex
MaxUpdates == 3

\* ---------------------------------------------------------- constants

INDEX_CACHE_TTL == 30000
\* milliseconds in one UTC day (Date.toISOString's date part changes)
DAY_MS == 86400000
\* a clock advance shorter than a day, longer than the TTL
TickMs == 40000
\* default maxKeywords of extractKeywordsFromExchange
MAX_KEYWORDS == 10

\* JavaScript's undefined, and what a template literal makes of it
Undefined == "<undefined>"
UndefinedText == "undefined"
\* what a path without a file holds (readFile throws ENOENT)
NoFile == [absent |-> TRUE]
\* content of a file that was opened for writing (truncated) and not written yet
Truncated == [truncated |-> TRUE]
\* content of a file that two writers wrote from offset 0 without a truncation
\* in between: the later text, then what is left of a longer earlier text
Mixed(c) == [mixed |-> c]
IsMixed(c) == "mixed" \in DOMAIN c
\* JavaScript's null
Null == [null |-> TRUE]

\* ------------------------------------------------------------ indexer

STOP_WORDS == {"why", "how", "the", "use", "yes", "more", "who", "are", "you"}
\* words of at most two characters, dropped by tokenize
ShortWords == {"no", "ok", "do", "i", "db"}
\* characters outside [a-z0-9\-_], replaced by a space
Punctuation == {"(", ")", "?"}

\* the entries of the topic table that the model's words can reach
TOPIC_KEYWORDS ==
  [t \in {"security", "database", "error-handling"} |->
     CASE t = "security" ->
            {"auth", "authentication", "jwt", "token", "oauth", "password"}
       [] t = "database" ->
            {"database", "sql", "query", "db", "table", "schema", "index"}
       [] t = "error-handling" ->
            {"error", "exception", "catch", "throw", "debug", "bug", "fix"}]

RECURSIVE Dedup(_)
Dedup(s) ==
  IF s = <<>> THEN <<>>
  ELSE LET r == Dedup(SubSeq(s, 1, Len(s) - 1))
           x == s[Len(s)]
       IN IF \E i \in 1..Len(r) : r[i] = x THEN r ELSE Append(r, x)

Count(s, x) == Cardinality({i \in 1..Len(s) : s[i] = x})

Take(s, n) == SubSeq(s, 1, IF Len(s) < n THEN Len(s) ELSE n)

\* toLowerCase of a word: the one word of the vocabulary with capital letters
toLowerCase(a) == IF a = "JWT" THEN "jwt" ELSE a

tokenize(text) ==
  SelectSeq([i \in 1..Len(text) |-> toLowerCase(text[i])],
            LAMBDA a : a \notin Punctuation /\ a \notin ShortWords)

RECURSIVE ByFrequency(_, _, _)
\* the entries of `words` whose count in `tokens` is f, then f-1, ..., 1: a
\* stable sort by descending frequency
ByFrequency(words, tokens, f) ==
  IF f = 0 THEN <<>>
  ELSE SelectSeq(words, LAMBDA w : Count(tokens, w) = f)
         \o ByFrequency(words, tokens, f - 1)

\* the tokens that are canonical array indexes ("404", not "007"), in
\* ascending numeric order
INTEGER_KEYS == <<"200", "404">>

\* Object.entries of an object whose keys were inserted in that order: the
\* integer keys first, ascending, then the other keys in insertion order
ObjectEntries(inserted) ==
  SelectSeq(INTEGER_KEYS, LAMBDA k : \E i \in 1..Len(inserted) : inserted[i] = k)
    \o SelectSeq(inserted,
                 LAMBDA k : \A i \in 1..Len(INTEGER_KEYS) : INTEGER_KEYS[i] # k)

extractKeywords(text, maxKeywords) ==
  LET tokens == SelectSeq(tokenize(text), LAMBDA a : a \notin STOP_WORDS)
  IN Take(ByFrequency(ObjectEntries(Dedup(tokens)), tokens, Len(tokens)),
          maxKeywords)

extractKeywordsFromExchange(question, answer) ==
  extractKeywords(question \o question \o answer, MAX_KEYWORDS)

\* the topics in the order of TOPIC_KEYWORDS
TopicOrder == <<"security", "database", "error-handling">>

\* a slip in extractTopics: one keyword is enough
extractTopicsOnOneMatch(text) ==
  LET tokens == {tokenize(text)[i] : i \in 1..Len(tokenize(text))}
  IN SelectSeq(TopicOrder,
               LAMBDA t : Cardinality(TOPIC_KEYWORDS[t] \cap tokens) >= 1)

\* extractTopics(text) with no existing topics
extractTopics(text) ==
  LET tokens == {tokenize(text)[i] : i \in 1..Len(tokenize(text))}
  IN SelectSeq(TopicOrder,
               LAMBDA t : Cardinality(TOPIC_KEYWORDS[t] \cap tokens) >= 2)

extractTopicsFromExchange(question, answer) == extractTopics(question \o answer)

\* ------------------------------------------------- storage: conversations

\* a piece of a conversation file's body
Hdr(ts) == [t |-> "## Question", ts |-> ts, w |-> ""]
AnsMark == [t |-> "### Answer", ts |-> 0, w |-> ""]
TextAtom(a) == [t |-> "text", ts |-> 0, w |-> a]
\* the separator line written between two exchanges: the same text as a
\* horizontal-rule line inside a question or an answer
Rule == TextAtom("---")

TextOf(atoms) == [i \in 1..Len(atoms) |-> TextAtom(atoms[i])]
WordsOf(pieces) == [i \in 1..Len(pieces) |-> pieces[i].w]

\* `${value}` of a frontmatter value
FormatValue(v) == IF v = Undefined THEN UndefinedText ELSE v
\* value.join(', ') of an array, as the list of its non-empty parts
JoinText(list) == IF list = <<"">> THEN <<>> ELSE list
\* text.split(',').map(s => s.trim()): the empty text splits into one empty string
SplitText(text) == IF text = <<>> THEN <<"">> ELSE text

RECURSIVE ExchangesMarkdown(_, _)
ExchangesMarkdown(exchanges, i) ==
  IF i > Len(exchanges) THEN <<>>
  ELSE <<Hdr(exchanges[i].timestamp)>> \o TextOf(exchanges[i].question)
         \o <<AnsMark>> \o TextOf(exchanges[i].answer)
         \o (IF i < Len(exchanges) THEN <<Rule>> ELSE <<>>)
         \o ExchangesMarkdown(exchanges, i + 1)

generateConversationMarkdown(c) ==
  [id |-> c.id,
   session_id |-> FormatValue(c.sessionId),
   created |-> c.created,
   updated |-> c.updated,
   keywords |-> JoinText(c.keywords),
   topics |-> JoinText(c.topics),
   body |-> ExchangesMarkdown(c.exchanges, 1)]

\* the least i in from..Len(b) where b[i] is a piece of kind t (and, for a
\* piece of text, is the text w), or 0
FirstIndex(b, from, t, w) ==
  LET hits == {i \in from..Len(b) : b[i].t = t /\ (t = "text" => b[i].w = w)}
  IN IF hits = {} THEN 0 ELSE CHOOSE i \in hits : \A j \in hits : i <= j

RECURSIVE ParseExchanges(_, _)
\* exchangeRegex.exec in a loop, from position pos: a header, the question up to
\* the first answer marker, the answer up to the first "\n---\n" or the end
ParseExchanges(b, pos) ==
  LET h == FirstIndex(b, pos, "## Question", "")
      a == IF h = 0 THEN 0 ELSE FirstIndex(b, h + 1, "### Answer", "")
      k == IF a = 0 THEN 0 ELSE FirstIndex(b, a + 2, Rule.t, Rule.w)
      end == IF k = 0 THEN Len(b) ELSE k - 1
  IN IF a = 0 THEN <<>>
     ELSE <<[timestamp |-> b[h].ts,
             question |-> WordsOf(SubSeq(b, h + 1, a - 1)),
             answer |-> WordsOf(SubSeq(b, a + 1, end))]>>
            \o ParseExchanges(b, end + 1)

\* what parseConversationMarkdown makes of a file with no frontmatter and no body
HollowConversation ==
  [id |-> Undefined, sessionId |-> Undefined, created |-> -1, updated |-> -1,
   keywords |-> <<>>, topics |-> <<>>, exchanges |-> <<>>]

RECURSIVE parseConversationMarkdown(_)
\* the left-over tail of a mixed file is taken to match no pattern
parseConversationMarkdown(content) ==
  IF content = Truncated THEN HollowConversation
  ELSE IF IsMixed(content) THEN parseConversationMarkdown(content.mixed)
  ELSE [id |-> content.id,
        sessionId |-> content.session_id,
        created |-> content.created,
        updated |-> content.updated,
        keywords |-> SplitText(content.keywords),
        topics |-> SplitText(content.topics),
        exchanges |-> ParseExchanges(content.body, 1)]

createConversation(id, sessionId, question, answer, keywords, topics, now) ==
  [id |-> id, sessionId |-> sessionId, created |-> now, updated |-> now,
   keywords |-> keywords, topics |-> topics,
   exchanges |-> <<[timestamp |-> now, question |-> question, answer |-> answer]>>]

appendToConversation(c, question, answer, newKeywords, newTopics, now) ==
  [c EXCEPT !.updated = now,
            !.keywords = Dedup(c.keywords \o newKeywords),
            !.topics = Dedup(c.topics \o newTopics),
            !.exchanges = Append(c.exchanges,
                [timestamp |-> now, question |-> question, answer |-> answer])]

\* the YYYY-MM-DD part of an ISO time, as a day number
DateOf(time) == time \div DAY_MS
getDateDirectory(now) == DateOf(now)

\* a slip in saveConversation: the file name is built without the id
ConvPathWithoutId(dateDir, id) == [dir |-> dateDir, id |-> "conv"]

\* join('conversations', dateDir, `conv-${id}.md`)
ConvPath(dateDir, id) == [dir |-> dateDir, id |-> id]

\* ----------------------------------------------------- storage: the index

\* An index in memory is [totalConversations, topics, keywords, recent].
\* topics is the object's entries in insertion order, each
\* [topic, by, entries]; keywords likewise, each [keyword, by, ids].  `by`
\* names the array object that holds the entries or ids: updateIndex copies
\* the two maps shallowly, so an array is shared by every index object that
\* descends from the one it was made for.  Keywords made of digits only, which
\* a JavaScript object enumerates first, are not among the words of the
\* exchanges that are recorded.

\* the array was made by a parse whose result nothing else refers to yet
Fresh == [by |-> "parse", n |-> 0]

Range(s) == {s[i] : i \in 1..Len(s)}

createEmptyIndex ==
  [totalConversations |-> 0, topics |-> <<>>, keywords |-> <<>>, recent |-> <<>>]

\* `${entry.summary || ''}` of a topic entry
EntrySummary(summary) == IF summary = Undefined THEN <<>> ELSE summary

\* the file saveIndex writes: the frontmatter's total_conversations, the topic
\* sections with their entry lines, the rows of the keyword table after its
\* two header lines, and the numbered lines of the recent list
IndexMarkdown(indexData) ==
  [total_conversations |-> indexData.totalConversations,
   topics |-> [i \in 1..Len(indexData.topics) |->
                 [topic |-> indexData.topics[i].topic,
                  entries |->
                    [j \in 1..Len(indexData.topics[i].entries) |->
                       [id |-> indexData.topics[i].entries[j].id,
                        path |-> indexData.topics[i].entries[j].path,
                        summary |-> EntrySummary(
                                      indexData.topics[i].entries[j].summary)]]]],
   keywords |-> [i \in 1..Len(indexData.keywords) |->
                   [keyword |-> indexData.keywords[i].keyword,
                    ids |-> indexData.keywords[i].ids]],
   recent |-> [i \in 1..Len(indexData.recent) |->
                 [date |-> indexData.recent[i].date,
                  id |-> indexData.recent[i].id,
                  summary |-> indexData.recent[i].summary,
                  keywords |-> JoinText(indexData.recent[i].keywords),
                  path |-> indexData.recent[i].path]]]

\* the topic names with a character outside \w
HYPHENATED_TOPICS == {"api-design", "error-handling"}

\* the topic regex: "### (\w+)\n"
TopicMatches(section) ==
  section.topic # "" /\ section.topic \notin HYPHENATED_TOPICS

\* the entry regex keeps the id and the path of an entry line
ParseTopic(section) ==
  [topic |-> section.topic, by |-> Fresh,
   entries |-> [j \in 1..Len(section.entries) |->
                  [id |-> section.entries[j].id,
                   path |-> section.entries[j].path,
                   summary |-> Undefined]]]

\* rows = match.split('\n').slice(3) keeps the second header line of the
\* table, "|---------|---------------|", whose two cells are read as a keyword
\* and its id list
TableRuleRow == [keyword |-> "---------", ids |-> <<"---------------">>]

\* a row gives an entry when it has at least two non-empty cells
RowMatches(row) == row.keyword # "" /\ row.ids # <<>>

RECURSIVE ParseRows(_)
\* keywords[cells[0]] = ... row by row: a keyword met again keeps its place and
\* takes the later id list
ParseRows(rows) ==
  IF rows = <<>> THEN <<>>
  ELSE LET before == ParseRows(SubSeq(rows, 1, Len(rows) - 1))
           row == rows[Len(rows)]
           item == [keyword |-> row.keyword, by |-> Fresh, ids |-> row.ids]
       IN IF ~RowMatches(row) THEN before
          ELSE IF \E i \in 1..Len(before) : before[i].keyword = row.keyword
          THEN [i \in 1..Len(before) |->
                  IF before[i].keyword = row.keyword THEN item ELSE before[i]]
          ELSE Append(before, item)

\* the recent-line regex: the summary is ([^(]+) on one line, the keyword text
\* is ([^)]+), at least one character
LineMatches(line) ==
  /\ \A i \in 1..Len(line.summary) : line.summary[i] \notin {"(", "---"}
  /\ line.keywords # <<>>

ParseLine(line) ==
  [date |-> line.date, id |-> line.id, summary |-> line.summary,
   keywords |-> SplitText(line.keywords), path |-> line.path]

RECURSIVE parseIndexMarkdown(_)
\* the left-over tail of a mixed file is taken to match no pattern
parseIndexMarkdown(content) ==
  IF content = Truncated THEN createEmptyIndex
  ELSE IF IsMixed(content) THEN parseIndexMarkdown(content.mixed)
  ELSE LET sections == SelectSeq(content.topics, TopicMatches)
           lines == SelectSeq(content.recent, LineMatches)
       IN [totalConversations |-> content.total_conversations,
           topics |-> [i \in 1..Len(sections) |-> ParseTopic(sections[i])],
           keywords |-> ParseRows(<<TableRuleRow>> \o content.keywords),
           recent |-> [i \in 1..Len(lines) |-> ParseLine(lines[i])]]

\* a slip in loadIndex: the catch returns what an empty index file parses to
loadIndexFromEmptyFile(content) ==
  IF content = NoFile THEN parseIndexMarkdown(IndexMarkdown(createEmptyIndex))
  ELSE parseIndexMarkdown(content)

\* loadIndex on the content read, NoFile when readFile threw
loadIndexFrom(content) ==
  IF content = NoFile THEN createEmptyIndex ELSE parseIndexMarkdown(content)

\* the index object a caller keeps: its arrays are the ones made for it
Owned(indexData, tag) ==
  [indexData EXCEPT
     !.topics = [i \in 1..Len(indexData.topics) |->
                   [indexData.topics[i] EXCEPT !.by = tag]],
     !.keywords = [i \in 1..Len(indexData.keywords) |->
                     [indexData.keywords[i] EXCEPT !.by = tag]]]

RecentIds(indexData) == {indexData.recent[i].id : i \in 1..Len(indexData.recent)}

\* exchanges[0]?.question?.substring(0, 50) + '...'
Summary(c) ==
  IF c.exchanges = <<>> THEN <<UndefinedText, "...">>
  ELSE Append(c.exchanges[1].question, "...")

\* the arrays of indexData that updateIndex pushes the conversation onto:
\* those of the conversation's topics that have no entry of its id, and those
\* of its keywords that do not include its id
PushedTopics(indexData, c) ==
  {[topic |-> t.topic, by |-> t.by] :
     t \in {t \in Range(indexData.topics) :
              /\ t.topic \in Range(c.topics)
              /\ \A j \in 1..Len(t.entries) : t.entries[j].id # c.id}}

\* a slip in updateIndex: the id is pushed without the test of includes(id)
PushedKeywordsUnchecked(indexData, c) ==
  {[keyword |-> k.keyword, by |-> k.by] :
     k \in {k \in Range(indexData.keywords) : k.keyword \in Range(c.keywords)}}

PushedKeywords(indexData, c) ==
  {[keyword |-> k.keyword, by |-> k.by] :
     k \in {k \in Range(indexData.keywords) :
              /\ k.keyword \in Range(c.keywords)
              /\ c.id \notin Range(k.ids)}}

\* an index object after those pushes: the arrays it shares have the new item
\* at their end
InPlace(obj, topicArrays, keywordArrays, entry) ==
  [obj EXCEPT
     !.topics = [i \in 1..Len(obj.topics) |->
                   LET t == obj.topics[i]
                   IN IF [topic |-> t.topic, by |-> t.by] \in topicArrays
                      THEN [t EXCEPT !.entries = Append(t.entries, entry)]
                      ELSE t],
     !.keywords = [i \in 1..Len(obj.keywords) |->
                     LET k == obj.keywords[i]
                     IN IF [keyword |-> k.keyword, by |-> k.by] \in keywordArrays
                        THEN [k EXCEPT !.ids = Append(k.ids, entry.id)]
                        ELSE k]]

\* { id, path: relativePath, summary }
TopicEntry(c, relativePath) ==
  [id |-> c.id, path |-> relativePath, summary |-> Summary(c)]

\* what updateIndex does to the index object it was given, and to every object
\* that shares an array with it
Mutated(obj, indexData, c, relativePath) ==
  InPlace(obj, PushedTopics(indexData, c), PushedKeywords(indexData, c),
          TopicEntry(c, relativePath))

\* the topics and keywords of the conversation that indexData has no array for
NewTopics(indexData, c) ==
  SelectSeq(Dedup(c.topics),
            LAMBDA t : \A i \in 1..Len(indexData.topics) :
                          indexData.topics[i].topic # t)

NewKeywords(indexData, c) ==
  SelectSeq(Dedup(c.keywords),
            LAMBDA k : \A i \in 1..Len(indexData.keywords) :
                          indexData.keywords[i].keyword # k)

\* a slip in updateIndex: the item is pushed to the end of the list (push for
\* unshift) before the list is cut
updateIndexPush(indexData, c, relativePath, tag) ==
  LET item == [date |-> DateOf(c.created), id |-> c.id, summary |-> Summary(c),
               keywords |-> c.keywords, path |-> relativePath]
      pushed == Mutated(indexData, indexData, c, relativePath)
      newTopics == NewTopics(indexData, c)
      newKeywords == NewKeywords(indexData, c)
      newRecent == Take(SelectSeq(indexData.recent, LAMBDA r : r.id # c.id)
                          \o <<item>>,
                        RecentCap)
  IN [totalConversations |->
        Cardinality({newRecent[i].id : i \in 1..Len(newRecent)}),
      topics |-> pushed.topics
                   \o [i \in 1..Len(newTopics) |->
                         [topic |-> newTopics[i], by |-> tag,
                          entries |-> <<TopicEntry(c, relativePath)>>]],
      keywords |-> pushed.keywords
                     \o [i \in 1..Len(newKeywords) |->
                           [keyword |-> newKeywords[i], by |-> tag,
                            ids |-> <<c.id>>]],
      recent |-> newRecent]

\* the object updateIndex returns; tag names the arrays it makes
updateIndex(indexData, c, relativePath, tag) ==
  LET item == [date |-> DateOf(c.created), id |-> c.id, summary |-> Summary(c),
               keywords |-> c.keywords, path |-> relativePath]
      pushed == Mutated(indexData, indexData, c, relativePath)
      newTopics == NewTopics(indexData, c)
      newKeywords == NewKeywords(indexData, c)
      newRecent == Take(<<item>> \o SelectSeq(indexData.recent,
                                              LAMBDA r : r.id # c.id),
                        RecentCap)
  IN [totalConversations |->
        Cardinality({newRecent[i].id : i \in 1..Len(newRecent)}),
      topics |-> pushed.topics
                   \o [i \in 1..Len(newTopics) |->
                         [topic |-> newTopics[i], by |-> tag,
                          entries |-> <<TopicEntry(c, relativePath)>>]],
      keywords |-> pushed.keywords
                     \o [i \in 1..Len(newKeywords) |->
                           [keyword |-> newKeywords[i], by |-> tag,
                            ids |-> <<c.id>>]],
      recent |-> newRecent]

\* ---------------------------------------------------------- retriever

\* Scores are multiples of 1/SCORE_UNIT: the quotients matchCount / length and
\* i / length are exact for lengths up to 10, and 0.3, 0.1 and 0.05 are
\* SCORE_UNIT * 3/10, 1/10 and 1/20.  (JavaScript adds the same terms in binary
\* floating point; equal sums of the same terms in the same order are equal
\* there too.)
SCORE_UNIT == 25200
TOPIC_BONUS == (3 * SCORE_UNIT) \div 10
DEFAULT_MIN_SCORE == SCORE_UNIT \div 10
SEARCH_MIN_SCORE == SCORE_UNIT \div 20
DEFAULT_RECENCY_BOOST == SCORE_UNIT \div 10
DEFAULT_MAX_RESULTS == 3

\* keywordIndex[keyword] || []
IdsOf(keywordIndex, keyword) ==
  LET hits == {i \in 1..Len(keywordIndex) : keywordIndex[i].keyword = keyword}
  IN IF hits = {} THEN <<>> ELSE keywordIndex[CHOOSE i \in hits : TRUE].ids

RECURSIVE Flatten(_)
\* the concatenation of a sequence of sequences
Flatten(lists) ==
  IF lists = <<>> THEN <<>> ELSE Head(lists) \o Flatten(Tail(lists))

\* the ids in the order they enter `matches`, each with its number of matches
findKeywordMatches(queryKeywords, keywordIndex) ==
  LET hits == Flatten([i \in 1..Len(queryKeywords) |->
                         IdsOf(keywordIndex, queryKeywords[i])])
      ids == Dedup(hits)
  IN [i \in 1..Len(ids) |-> [id |-> ids[i], matches |-> Count(hits, ids[i])]]

\* scores[id], 0 for an id that is not a key of scores
ScoreOf(scores, id) ==
  LET hits == {i \in 1..Len(scores) : scores[i].id = id}
  IN IF hits = {} THEN 0 ELSE scores[CHOOSE i \in hits : TRUE].score

\* scores[id] = (scores[id] || 0) + bonus
AddScore(scores, id, bonus) ==
  IF \E i \in 1..Len(scores) : scores[i].id = id
  THEN [i \in 1..Len(scores) |->
          IF scores[i].id = id
          THEN [scores[i] EXCEPT !.score = scores[i].score + bonus]
          ELSE scores[i]]
  ELSE Append(scores, [id |-> id, score |-> bonus])

RECURSIVE AddTopicBonus(_, _)
\* the topic loop over the entries of the query's topics, in index order
AddTopicBonus(scores, entryIds) ==
  IF entryIds = <<>> THEN scores
  ELSE AddTopicBonus(AddScore(scores, Head(entryIds), TOPIC_BONUS),
                     Tail(entryIds))

RECURSIVE AddRecencyOldestFirst(_, _, _, _)
\* a slip in the boost: i / recentIds.length for 1 - i / recentIds.length
AddRecencyOldestFirst(scores, recentIds, i, recencyBoost) ==
  IF i >= Len(recentIds) THEN scores
  ELSE LET id == recentIds[i + 1]
           boost == (recencyBoost * i) \div Len(recentIds)
       IN AddRecencyOldestFirst(IF ScoreOf(scores, id) # 0
                                THEN AddScore(scores, id, boost) ELSE scores,
                                recentIds, i + 1, recencyBoost)

RECURSIVE AddRecency(_, _, _, _)
\* the recency loop from position i (counted from 0) of recentIds
AddRecency(scores, recentIds, i, recencyBoost) ==
  IF i >= Len(recentIds) THEN scores
  ELSE LET id == recentIds[i + 1]
           boost == (recencyBoost * (Len(recentIds) - i)) \div Len(recentIds)
       IN AddRecency(IF ScoreOf(scores, id) # 0
                     THEN AddScore(scores, id, boost) ELSE scores,
                     recentIds, i + 1, recencyBoost)

RECURSIVE SortByScoreAscending(_)
\* a slip in the comparator: a[1] - b[1]
SortByScoreAscending(scores) ==
  IF scores = <<>> THEN <<>>
  ELSE LET rest == SortByScoreAscending(Tail(scores))
           x == Head(scores)
           above == SelectSeq(rest, LAMBDA y : y.score < x.score)
           below == SelectSeq(rest, LAMBDA y : y.score >= x.score)
       IN above \o <<x>> \o below

RECURSIVE SortByScore(_)
\* sort((a, b) => b[1] - a[1]): descending, entries of equal score stay in
\* their order
SortByScore(scores) ==
  IF scores = <<>> THEN <<>>
  ELSE LET rest == SortByScore(Tail(scores))
           x == Head(scores)
           above == SelectSeq(rest, LAMBDA y : y.score > x.score)
           below == SelectSeq(rest, LAMBDA y : y.score <= x.score)
       IN above \o <<x>> \o below

\* a slip in the filter: every scored conversation passes
FilterNothing(scores, minScore) == scores

\* filter(([_, score]) => score >= minScore)
FilterByScore(scores, minScore) ==
  SelectSeq(scores, LAMBDA e : e.score >= minScore)

\* the ids and scores of the entries findRelevantConversations returns, in
\* their order; options is [maxResults, minScore, recencyBoost]
findRelevantConversations(question, indexData, options) ==
  LET queryKeywords == extractKeywords(question, MAX_KEYWORDS)
      queryTopics == extractTopics(question)
      keywordMatches == findKeywordMatches(queryKeywords, indexData.keywords)
      base == [i \in 1..Len(keywordMatches) |->
                 [id |-> keywordMatches[i].id,
                  score |-> (keywordMatches[i].matches * SCORE_UNIT)
                              \div Len(queryKeywords)]]
      matched == SelectSeq(indexData.topics,
                           LAMBDA t : t.topic \in Range(queryTopics))
      entryIds == Flatten([i \in 1..Len(matched) |->
                             [j \in 1..Len(matched[i].entries) |->
                                matched[i].entries[j].id]])
      withTopics == AddTopicBonus(base, entryIds)
      recentIds == [i \in 1..Len(indexData.recent) |-> indexData.recent[i].id]
      scores == AddRecency(withTopics, recentIds, 0, options.recencyBoost)
  IN Take(SortByScore(FilterByScore(scores, options.minScore)),
          options.maxResults)

\* what searchConversations returns: recent items when the query has no
\* keyword, ranked entries otherwise
searchConversations(query, indexData, limit) ==
  IF extractKeywords(query, MAX_KEYWORDS) = <<>>
  THEN Take(indexData.recent, limit)
  ELSE findRelevantConversations(query, indexData,
         [maxResults |-> limit, minScore |-> SEARCH_MIN_SCORE,
          recencyBoost |-> DEFAULT_RECENCY_BOOST])

\* ------------------------------------------------ retriever: the context

\* The formatter sees a text by its length only: here an exchange is
\* [question, answer], the numbers of characters of the two texts, and a line
\* of the output is [kind, match, exchange, chars]: the match and the exchange
\* it renders and the number of characters pushed for it.

\* let estimatedTokens = 10
HEADER_OVERHEAD == 10
\* exchangeText.length / 4, and remainingTokens * 4
CHARS_PER_TOKEN == 4
\* remainingTokens > 50
TRUNCATE_ROOM == 50
\* the characters of "...\n"
ELLIPSIS_LENGTH == 4
\* the characters of "--- Relevant Past Conversations ---\n" and of
\* "--- End Past Conversations ---\n"
HEADER_LENGTH == 36
FOOTER_LENGTH == 31

\* Math.ceil(chars / 4)
estimateTokens(chars) == (chars + CHARS_PER_TOKEN - 1) \div CHARS_PER_TOKEN

\* the length of `Q: ${exchange.question}\nA: ${exchange.answer}\n\n`
ExchangeTextLength(exchange) == 3 + exchange.question + 4 + exchange.answer + 2

HeaderLine == [kind |-> "header", match |-> 0, exchange |-> 0,
               chars |-> HEADER_LENGTH]
FooterLine == [kind |-> "footer", match |-> 0, exchange |-> 0,
               chars |-> FOOTER_LENGTH]
ExchangeLine(m, e, chars) ==
  [kind |-> "exchange", match |-> m, exchange |-> e, chars |-> chars]

\* a slip in the truncation: the text is cut to as many characters as tokens
\* remain
truncatedLengthInTokens(remainingTokens) == remainingTokens

\* const truncatedLength = remainingTokens * 4
truncatedLength(remainingTokens) == remainingTokens * CHARS_PER_TOKEN

\* exchangeText.substring(0, truncatedLength) + "...\n"
TruncatedLine(m, e, chars, remainingTokens) ==
  LET cut == truncatedLength(remainingTokens)
  IN [kind |-> "truncated", match |-> m, exchange |-> e,
      chars |-> (IF chars < cut THEN chars ELSE cut) + ELLIPSIS_LENGTH]

RECURSIVE FormatExchanges(_, _, _, _, _)
\* the inner loop from exchange e of match m; st is [lines, estimatedTokens].
\* The break leaves this loop only.
FormatExchanges(exchanges, m, e, st, maxTokens) ==
  IF e > Len(exchanges) THEN st
  ELSE LET chars == ExchangeTextLength(exchanges[e])
           exchangeTokens == estimateTokens(chars)
           remainingTokens == maxTokens - st.estimatedTokens
       IN IF st.estimatedTokens + exchangeTokens > maxTokens
          THEN IF remainingTokens > TRUNCATE_ROOM
               THEN [st EXCEPT !.lines =
                       Append(@, TruncatedLine(m, e, chars, remainingTokens))]
               ELSE st
          ELSE FormatExchanges(exchanges, m, e + 1,
                 [lines |-> Append(st.lines, ExchangeLine(m, e, chars)),
                  estimatedTokens |-> st.estimatedTokens + exchangeTokens],
                 maxTokens)

RECURSIVE FormatMatchesToTheEnd(_, _, _, _)
\* a slip in the outer loop: no test of the estimate between two matches
FormatMatchesToTheEnd(matches, m, st, maxTokens) ==
  IF m > Len(matches) THEN st
  ELSE IF matches[m].exchanges = <<>>
  THEN FormatMatchesToTheEnd(matches, m + 1, st, maxTokens)
  ELSE FormatMatchesToTheEnd(matches, m + 1,
         FormatExchanges(matches[m].exchanges, m, 1, st, maxTokens), maxTokens)

RECURSIVE FormatMatches(_, _, _, _)
\* the outer loop from match m: a match without exchanges is passed over; the
\* loop ends when estimatedTokens >= maxTokens * 0.9
FormatMatches(matches, m, st, maxTokens) ==
  IF m > Len(matches) THEN st
  ELSE IF matches[m].exchanges = <<>>
  THEN FormatMatches(matches, m + 1, st, maxTokens)
  ELSE LET after == FormatExchanges(matches[m].exchanges, m, 1, st, maxTokens)
       IN IF 10 * after.estimatedTokens >= 9 * maxTokens THEN after
          ELSE FormatMatches(matches, m + 1, after, maxTokens)

\* the lines that formatContextForInjection joins, none for the empty string
formatContextForInjection(matches, maxTokens) ==
  IF matches = <<>> THEN <<>>
  ELSE Append(FormatMatches(matches, 1,
                [lines |-> <<HeaderLine>>, estimatedTokens |-> HEADER_OVERHEAD],
                maxTokens).lines,
              FooterLine)

\* -------------------------------------------------------------- inputs

\* "How do I use a JWT token" / "Use a signed token"
PlainExchange == [question |-> <<"jwt", "token">>, answer |-> <<"signed", "token">>]
\* a question with a parenthesis in its first 50 characters
ParenExchange == [question |-> <<"call", "(", ")">>, answer |-> <<"signed", "token">>]
\* an answer with a horizontal rule in it
RuleExchange == [question |-> <<"jwt", "token">>, answer |-> <<"yes", "---", "more">>]
\* an exchange of stop words and short words only
StopExchange == [question |-> <<"why", "?">>, answer |-> <<"no">>]
\* an exchange of the topic error-handling
ErrorExchange == [question |-> <<"error", "bug">>, answer |-> <<"fix">>]

\* questions for the retriever: two keywords of the topic security, one
\* keyword without a topic, no keyword at all
RetrieveQuestions == {<<"jwt", "token">>, <<"signed">>, <<"why", "?">>}

\* an index with the given id lists: the conversations under the keywords jwt
\* and signed, under the topic security, and in recent
IndexOf(jwt, signed, security, recent) ==
  [totalConversations |-> Cardinality(Range(recent)),
   topics |-> IF security = <<>> THEN <<>>
              ELSE <<[topic |-> "security", by |-> Fresh,
                      entries |-> [i \in 1..Len(security) |->
                                     [id |-> security[i],
                                      path |-> ConvPath(0, security[i]),
                                      summary |-> Undefined]]]>>,
   keywords |-> SelectSeq(<<[keyword |-> "jwt", by |-> Fresh, ids |-> jwt],
                            [keyword |-> "signed", by |-> Fresh, ids |-> signed]>>,
                          LAMBDA k : k.ids # <<>>),
   recent |-> [i \in 1..Len(recent) |->
                 [date |-> 0, id |-> recent[i], summary |-> <<"jwt", "...">>,
                  keywords |-> <<"jwt">>, path |-> ConvPath(0, recent[i])]]]

\* indexes with conversations that are in recent and conversations that were
\* evicted from it and are still listed under a keyword or a topic
RetrieveIndexes ==
  {IndexOf(jwt, signed, security, recent) :
     jwt \in {<<>>, <<"c1">>, <<"c1", "c2">>},
     signed \in {<<>>, <<"c2">>, <<"c3", "c1">>},
     security \in {<<>>, <<"c3">>, <<"c2", "c3">>},
     recent \in {<<>>, <<"c1">>, <<"c2", "c1">>, <<"c1", "c2", "c3">>}}

RetrieveOptions ==
  [maxResults : 0..MaxLimit,
   minScore : {SEARCH_MIN_SCORE, DEFAULT_MIN_SCORE, SCORE_UNIT \div 2},
   recencyBoost : {DEFAULT_RECENCY_BOOST}]

RetrieveArgs ==
  [question : RetrieveQuestions, index : RetrieveIndexes, options : RetrieveOptions]

\* uuidv4().substring(0, 8): the n-th id drawn, taken to be fresh
ID_NAMES == <<"c1", "c2", "c3", "c4", "c5", "c6", "c7", "c8">>

Recorders == {"w1", "w2"}
Readers == {"r1"}
Procs == Recorders \cup Readers

\* ---------------------------------------------------------------- state

VARIABLES
  now,             \* Date.now(), in milliseconds
  ticks,           \* clock advances so far
  indexCache,      \* index.js: indexCache
  indexCacheTime,  \* index.js: indexCacheTime
  indexFile,       \* content of {instance}/index.md
  indexTmp,        \* content of {instance}/index.md.tmp
  convFiles,       \* path -> content of the conversation files that exist
  convTmp,         \* path -> content of the files path + '.tmp' that exist
  fd,              \* per process: the file its open handle writes to
  call,            \* per process: position and locals of its call in flight
  nextId,          \* number of ids drawn from uuidv4, plus one
  calls,           \* recordConversation calls begun
  answer,          \* per reader: what its last operation returned
  log,             \* the recordConversation calls that returned, in order
  lastRecorded,    \* the conversation of the last successful record, while no
                   \* other record began since
  config,          \* index.js: config (its field enabled)
  failing,         \* the fs operations that reject at present
  loads,           \* index objects that read operations have loaded
  boot,            \* position of initializeMemory
  arg,             \* the arguments of a function applied on its own
  ret,             \* what that function returned
  activeRequests,  \* server/index.js: activeRequests
  requests         \* per /ask request: its position, its response, its child

vars == <<now, ticks, indexCache, indexCacheTime, indexFile, indexTmp, convFiles,
          convTmp, fd, call, nextId, calls, answer, log, lastRecorded,
          config, failing, loads, boot, arg, ret, activeRequests, requests>>

\* the state of the HTTP server
http == <<activeRequests, requests>>

\* the /ask requests the server can have at a time, answered or not
MaxRequests == 4
Requests == 1..MaxRequests

\* a request that has not arrived
NoRequest == [pc |-> "idle", status |-> 0, child |-> "none", released |-> 0]

\* what the calls of an initialized instance on a sound disk leave alone
env == <<config, failing, loads, boot, arg, ret, http>>

disk == <<indexFile, indexTmp, convFiles, convTmp, fd>>
cache == <<indexCache, indexCacheTime>>

Get(f, k) == IF k \in DOMAIN f THEN f[k] ELSE NoFile
Put(f, k, v) == [x \in DOMAIN f \cup {k} |-> IF x = k THEN v ELSE f[x]]
Del(f, k) == [x \in DOMAIN f \ {k} |-> f[x]]

NoFd == [closed |-> TRUE]
IndexFd(loc) == [file |-> "index", loc |-> loc]
ConvFd(path, loc) == [file |-> "conv", path |-> path, loc |-> loc]

\* the names of the array objects made for the index that initializeMemory
\* loads, for a recordConversation call, and for a read operation's load
InitTag == [by |-> "init", n |-> 0]
CallTag(cl) == [by |-> "call", n |-> cl.n]
ReadTag(n) == [by |-> "read", n |-> n]

\* a call that has not started
Idle ==
  [pc |-> "idle", question |-> <<>>, answer |-> <<>>, sessionId |-> Undefined,
   recent |-> <<>>, i |-> 0, path |-> Null, read |-> Null, conversation |-> Null,
   relativePath |-> Null, cnow |-> 0, index |-> Null, updatedIndex |-> Null,
   result |-> Null, id |-> Undefined, expect |-> Undefined, n |-> 0,
   saved |-> Null]

NoAnswer == [op |-> "none"]

\* the state after initializeMemory: ensureDirectoryStructure wrote an empty
\* index.md, loadIndex read it into the cache
Initialized ==
  /\ now = 0
  /\ ticks = 0
  /\ indexCache = Owned(parseIndexMarkdown(IndexMarkdown(createEmptyIndex)),
                         InitTag)
  /\ indexCacheTime = 0
  /\ indexFile = IndexMarkdown(createEmptyIndex)
  /\ indexTmp = NoFile
  /\ convFiles = <<>>
  /\ convTmp = <<>>
  /\ fd = [p \in Procs |-> NoFd]
  /\ call = [p \in Procs |-> Idle]
  /\ nextId = 1
  /\ calls = 0
  /\ answer = [r \in Readers |-> NoAnswer]
  /\ log = <<>>
  /\ lastRecorded = Undefined
  /\ config = [enabled |-> TRUE]
  /\ failing = {}
  /\ loads = 0
  /\ boot = "ready"
  /\ activeRequests = 0
  /\ requests = [q \in Requests |-> NoRequest]

Init ==
  /\ Initialized
  /\ arg = Null
  /\ ret = Null

\* ------------------------------------------------------- file operations

\* fs.writeFile's write through a handle opened before: onto a truncated file
\* the text, onto a file another handle wrote meanwhile the overlay of the two
Written(cur, content) ==
  IF cur \in {Truncated, content} THEN {content} ELSE {content, Mixed(content)}

\* fs.rename(indexPath + '.tmp', indexPath): handles follow their file
RenamedIndexFd(f) ==
  IF "file" \in DOMAIN f /\ f.file = "index"
  THEN IndexFd(IF f.loc = "tmp" THEN "final" ELSE "orphan")
  ELSE f

RenamedConvFd(f, path) ==
  IF "file" \in DOMAIN f /\ f.file = "conv" /\ f.path = path
  THEN ConvFd(path, IF f.loc = "tmp" THEN "final" ELSE "orphan")
  ELSE f

\* the kinds of fs operation that can reject
FS_OPERATIONS == {"mkdir", "readFile", "writeFile", "rename"}

\* fs.readFile of a path with that content: NoFile when it rejects
readFile(content) == IF "readFile" \in failing THEN NoFile ELSE content

\* loadIndex(basePath, instanceName)
loadIndex == loadIndexFrom(readFile(indexFile))

\* fs.mkdir and the opening of the temporary file go through
CanOpen == {"mkdir", "writeFile"} \cap failing = {}

\* ------------------------------------------------- recordConversation

Expired(cacheTime, t) == t - cacheTime > INDEX_CACHE_TTL

Keywords(cl) == extractKeywordsFromExchange(cl.question, cl.answer)
Topics(cl) == extractTopicsFromExchange(cl.question, cl.answer)

\* the else branch: createConversation, then saveConversation up to its first
\* file operation
Created(cl, id, t) ==
  [cl EXCEPT !.pc = "conv.open",
             !.conversation = createConversation(id, cl.sessionId, cl.question,
                                  cl.answer, Keywords(cl), Topics(cl), t),
             !.relativePath = ConvPath(getDateDirectory(t), id)]

\* the then branch: appendToConversation, then saveConversation up to its first
\* file operation
Appended(cl, content, t) ==
  LET c == parseConversationMarkdown(content)
  IN [cl EXCEPT !.pc = "conv.open",
                !.read = content,
                !.conversation = appendToConversation(c, cl.question, cl.answer,
                                     Keywords(cl), Topics(cl), t),
                !.relativePath = ConvPath(getDateDirectory(t), c.id)]

\* findConversationBySessionId's loop: the next item of recent, or null
NextItemOrCreate(cl, id, t) ==
  IF cl.i < Len(cl.recent)
  THEN [cl EXCEPT !.i = cl.i + 1, !.pc = "find.conv.loadIndex"]
  ELSE Created(cl, id, t)

\* the id is drawn when createConversation runs
Drawn(cl) == IF cl.pc = "conv.open" /\ cl.read = Null THEN 1 ELSE 0

\* a call runs in the first slot that has no call in flight
FreeSlot(p) ==
  /\ call[p].pc \in {"idle", "done"}
  /\ p = "w2" => call["w1"].pc \notin {"idle", "done"}

BeginRecord(p, exchanges, sessions, maxCalls) ==
  /\ config.enabled
  /\ FreeSlot(p)
  /\ calls < maxCalls
  /\ \E x \in exchanges, s \in sessions :
       LET cl == [Idle EXCEPT !.question = x.question, !.answer = x.answer,
                              !.sessionId = s, !.n = calls + 1]
       IN call' = [call EXCEPT ![p] =
                     IF s # Undefined
                     THEN [cl EXCEPT !.pc = "find.loadIndex"]
                     ELSE Created(cl, ID_NAMES[nextId], now)]
  /\ nextId' = nextId + Drawn(call'[p])
  /\ calls' = calls + 1
  /\ lastRecorded' = Undefined
  /\ UNCHANGED <<env, now, ticks, cache, disk, answer, log>>

\* findConversationBySessionId: loadIndex
FindLoadIndex(p) ==
  /\ call[p].pc = "find.loadIndex"
  /\ LET cl == [call[p] EXCEPT !.recent = loadIndex.recent, !.i = 0]
     IN call' = [call EXCEPT ![p] = NextItemOrCreate(cl, ID_NAMES[nextId], now)]
  /\ nextId' = nextId + Drawn(call'[p])
  /\ UNCHANGED <<env, now, ticks, cache, disk, calls, answer, log, lastRecorded>>

\* the path loadConversation finds for an id in the index it loaded, or Null
PathOf(indexData, id) ==
  LET hits == {i \in 1..Len(indexData.recent) : indexData.recent[i].id = id}
  IN IF hits = {} THEN Null
     ELSE indexData.recent[CHOOSE i \in hits : \A j \in hits : i <= j].path

\* loadConversation(item.id): loadIndex, then the search for the id
FindConvLoadIndex(p) ==
  /\ call[p].pc = "find.conv.loadIndex"
  /\ LET cl == call[p]
         path == PathOf(loadIndex, cl.recent[cl.i].id)
     IN call' = [call EXCEPT ![p] =
                   IF path = Null
                   THEN NextItemOrCreate(cl, ID_NAMES[nextId], now)
                   ELSE [cl EXCEPT !.pc = "find.conv.readFile", !.path = path]]
  /\ nextId' = nextId + Drawn(call'[p])
  /\ UNCHANGED <<env, now, ticks, cache, disk, calls, answer, log, lastRecorded>>

\* loadConversation(item.id): readFile, parse; then the session comparison
FindConvReadFile(p) ==
  /\ call[p].pc = "find.conv.readFile"
  /\ LET cl == call[p]
         content == readFile(Get(convFiles, cl.path))
     IN call' = [call EXCEPT ![p] =
                   IF content # NoFile
                      /\ parseConversationMarkdown(content).sessionId = cl.sessionId
                   THEN Appended(cl, content, now)
                   ELSE NextItemOrCreate(cl, ID_NAMES[nextId], now)]
  /\ nextId' = nextId + Drawn(call'[p])
  /\ UNCHANGED <<env, now, ticks, cache, disk, calls, answer, log, lastRecorded>>

\* recordConversation's catch: the call returns {recorded: false, error}
Returned(cl, result) ==
  [Idle EXCEPT !.pc = "done", !.sessionId = cl.sessionId, !.index = cl.index,
               !.result = result]

\* a slip in recordConversation: no catch, the call rejects
Rejected(cl) ==
  Returned(cl, [recorded |-> FALSE, conversationId |-> Undefined,
                isNewConversation |-> FALSE, rejected |-> "message"])

Failed(cl) ==
  Returned(cl, [recorded |-> FALSE, conversationId |-> Undefined,
                isNewConversation |-> FALSE, error |-> "message"])

LogEntry(cl, result) ==
  [sessionId |-> cl.sessionId, question |-> cl.question, answer |-> cl.answer,
   result |-> result]

\* saveConversation: fs.writeFile(tempPath) opens the file, truncating it
ConvOpen(p) ==
  /\ call[p].pc = "conv.open"
  /\ CanOpen
  /\ convTmp' = Put(convTmp, call[p].relativePath, Truncated)
  /\ fd' = [fd EXCEPT ![p] = ConvFd(call[p].relativePath, "tmp")]
  /\ call' = [call EXCEPT ![p].pc = "conv.write"]
  /\ UNCHANGED <<env, now, ticks, cache, indexFile, indexTmp, convFiles, nextId, calls,
                 answer, log, lastRecorded>>

\* saveConversation: fs.writeFile(tempPath) writes the text and closes
ConvWrite(p) ==
  /\ call[p].pc = "conv.write"
  /\ "writeFile" \notin failing
  /\ LET path == call[p].relativePath
         content == generateConversationMarkdown(call[p].conversation)
     IN \/ /\ fd[p].loc = "tmp"
           /\ \E c \in Written(convTmp[path], content) :
                convTmp' = Put(convTmp, path, c)
           /\ UNCHANGED convFiles
        \/ /\ fd[p].loc = "final"
           /\ \E c \in Written(convFiles[path], content) :
                convFiles' = Put(convFiles, path, c)
           /\ UNCHANGED convTmp
        \/ /\ fd[p].loc = "orphan"
           /\ UNCHANGED <<convFiles, convTmp>>
  /\ fd' = [fd EXCEPT ![p] = NoFd]
  /\ call' = [call EXCEPT ![p].pc = "conv.rename"]
  /\ UNCHANGED <<env, now, ticks, cache, indexFile, indexTmp, nextId, calls,
                 answer, log, lastRecorded>>

\* saveConversation: fs.rename(tempPath, fullPath); ENOENT when another call's
\* rename took the temporary file
ConvRename(p) ==
  /\ call[p].pc = "conv.rename"
  /\ "rename" \notin failing
  /\ LET path == call[p].relativePath
     IN IF path \in DOMAIN convTmp
        THEN /\ convFiles' = Put(convFiles, path, convTmp[path])
             /\ convTmp' = Del(convTmp, path)
             /\ fd' = [q \in Procs |-> RenamedConvFd(fd[q], path)]
             /\ call' = [call EXCEPT ![p].pc = "index.get"]
             /\ UNCHANGED log
        ELSE /\ call' = [call EXCEPT ![p] = Failed(call[p])]
             /\ log' = Append(log, LogEntry(call[p], call'[p].result))
             /\ UNCHANGED <<convFiles, convTmp, fd>>
  /\ UNCHANGED <<env, now, ticks, cache, indexFile, indexTmp, nextId, calls,
                 answer, lastRecorded>>

\* a slip in recordConversation: the cache is replaced right after updateIndex,
\* saveIndex is left out
UpdatedWithoutSave(cl, indexData) ==
  [cl EXCEPT !.pc = "finish",
             !.index = Mutated(indexData, indexData, cl.conversation,
                               cl.relativePath),
             !.updatedIndex = updateIndex(indexData, cl.conversation,
                                          cl.relativePath, CallTag(cl)),
             !.saved = IndexMarkdown(updateIndex(indexData, cl.conversation,
                                         cl.relativePath, CallTag(cl)))]

\* updateIndex on the index getCachedIndex returned, then saveIndex up to its
\* first file operation: the text of the file is generated before it
Updated(cl, indexData) ==
  [cl EXCEPT !.pc = "index.open",
             !.index = Mutated(indexData, indexData, cl.conversation,
                               cl.relativePath),
             !.updatedIndex = updateIndex(indexData, cl.conversation,
                                          cl.relativePath, CallTag(cl)),
             !.saved = IndexMarkdown(updateIndex(indexData, cl.conversation,
                                         cl.relativePath, CallTag(cl)))]

\* the calls after the call of process p applied updateIndex to indexData: the
\* index objects that calls in flight hold see the pushes onto shared arrays
CallsAfterUpdate(p, indexData) ==
  LET seen(obj) == IF obj = Null THEN Null
                   ELSE Mutated(obj, indexData, call[p].conversation,
                                call[p].relativePath)
  IN [q \in Procs |->
        IF q = p THEN Updated(call[p], indexData)
        ELSE IF call[q].pc \in {"idle", "done"} THEN call[q]
        ELSE [call[q] EXCEPT !.index = seen(call[q].index),
                             !.updatedIndex = seen(call[q].updatedIndex)]]

\* getCachedIndex, up to its await; when the cache is fresh, updateIndex too
IndexGet(p) ==
  /\ call[p].pc = "index.get"
  /\ IF Expired(indexCacheTime, now)
     THEN /\ call' = [call EXCEPT ![p].pc = "index.load", ![p].cnow = now]
          /\ UNCHANGED indexCache
     ELSE /\ call' = CallsAfterUpdate(p, indexCache)
          /\ indexCache' = call'[p].index
  /\ UNCHANGED <<env, now, ticks, indexCacheTime, disk, nextId, calls, answer,
                 log, lastRecorded>>

\* getCachedIndex: loadIndex reads the file
IndexLoad(p) ==
  /\ call[p].pc = "index.load"
  /\ call' = [call EXCEPT ![p].pc = "index.loaded",
                          ![p].index = Owned(loadIndex, CallTag(call[p]))]
  /\ UNCHANGED <<env, now, ticks, cache, disk, nextId, calls, answer, log,
                 lastRecorded>>

\* getCachedIndex after its await: the cache is assigned; then updateIndex
IndexLoaded(p) ==
  /\ call[p].pc = "index.loaded"
  /\ call' = CallsAfterUpdate(p, call[p].index)
  /\ indexCache' = call'[p].index
  /\ indexCacheTime' = call[p].cnow
  /\ UNCHANGED <<env, now, ticks, disk, nextId, calls, answer, log, lastRecorded>>

\* saveIndex: fs.writeFile(tempPath) opens the file, truncating it
IndexOpen(p) ==
  /\ call[p].pc = "index.open"
  /\ CanOpen
  /\ indexTmp' = Truncated
  /\ fd' = [fd EXCEPT ![p] = IndexFd("tmp")]
  /\ call' = [call EXCEPT ![p].pc = "index.write"]
  /\ UNCHANGED <<env, now, ticks, cache, indexFile, convFiles, convTmp, nextId, calls,
                 answer, log, lastRecorded>>

\* a slip in recordConversation: the index it was handed is saved, not the
\* updated one
SavedIndexBeforeUpdate(cl) == IndexMarkdown(cl.index)

\* the text saveIndex(basePath, instanceName, updatedIndex) generates
SavedIndex(cl) == cl.saved

\* saveIndex: fs.writeFile(tempPath) writes the text and closes
IndexWrite(p) ==
  /\ call[p].pc = "index.write"
  /\ "writeFile" \notin failing
  /\ LET content == SavedIndex(call[p])
     IN \/ /\ fd[p].loc = "tmp"
           /\ indexTmp' \in Written(indexTmp, content)
           /\ UNCHANGED indexFile
        \/ /\ fd[p].loc = "final"
           /\ indexFile' \in Written(indexFile, content)
           /\ UNCHANGED indexTmp
        \/ /\ fd[p].loc = "orphan"
           /\ UNCHANGED <<indexFile, indexTmp>>
  /\ fd' = [fd EXCEPT ![p] = NoFd]
  /\ call' = [call EXCEPT ![p].pc = "index.rename"]
  /\ UNCHANGED <<env, now, ticks, cache, convFiles, convTmp, nextId, calls,
                 answer, log, lastRecorded>>

\* saveIndex: fs.rename(tempPath, indexPath); ENOENT when another call's rename
\* took the temporary file
IndexRename(p) ==
  /\ call[p].pc = "index.rename"
  /\ "rename" \notin failing
  /\ IF indexTmp # NoFile
     THEN /\ indexFile' = indexTmp
          /\ indexTmp' = NoFile
          /\ fd' = [q \in Procs |-> RenamedIndexFd(fd[q])]
          /\ call' = [call EXCEPT ![p].pc = "finish"]
          /\ UNCHANGED log
     ELSE /\ call' = [call EXCEPT ![p] = Failed(call[p])]
          /\ log' = Append(log, LogEntry(call[p], call'[p].result))
          /\ UNCHANGED <<indexFile, indexTmp, fd>>
  /\ UNCHANGED <<env, now, ticks, cache, convFiles, convTmp, nextId, calls,
                 answer, lastRecorded>>

\* a slip in recordConversation: the session alone decides
isNewConversationBySession(cl) == cl.sessionId = Undefined

\* !sessionId || conversation.exchanges.length === 1
isNewConversation(cl) ==
  cl.sessionId = Undefined \/ Len(cl.conversation.exchanges) = 1

\* recordConversation after saveIndex: the cache is replaced, the call returns
Finish(p) ==
  /\ call[p].pc = "finish"
  /\ indexCache' = call[p].updatedIndex
  /\ indexCacheTime' = now
  /\ call' = [call EXCEPT ![p] =
                Returned(call[p],
                  [recorded |-> TRUE,
                   conversationId |-> call[p].conversation.id,
                   isNewConversation |-> isNewConversation(call[p])])]
  /\ log' = Append(log, LogEntry(call[p], call'[p].result))
  /\ lastRecorded' =
       IF \A q \in Recorders \ {p} : call[q].pc \in {"idle", "done"}
       THEN call[p].conversation.id ELSE Undefined
  /\ UNCHANGED <<env, now, ticks, disk, nextId, calls, answer>>

\* ------------------------------------------------------ read operations

\* what getRecent returned; `after` is the conversation whose successful record
\* came before the call with no other record begun up to the answer
RecentAnswer(indexData, expect, last) ==
  [op |-> "getRecent", recent |-> indexData.recent,
   after |-> IF expect = last THEN expect ELSE Undefined]

\* getRecent: getCachedIndex up to its await, or to the return on a fresh cache
BeginGetRecent(r) ==
  /\ config.enabled
  /\ call[r].pc = "idle"
  /\ IF Expired(indexCacheTime, now)
     THEN /\ call' = [call EXCEPT ![r].pc = "recent.load", ![r].cnow = now,
                                  ![r].expect = lastRecorded]
          /\ UNCHANGED answer
     ELSE /\ answer' = [answer EXCEPT ![r] =
                          RecentAnswer(indexCache, lastRecorded, lastRecorded)]
          /\ call' = [call EXCEPT ![r].pc = "answered"]
  /\ UNCHANGED <<env, now, ticks, cache, disk, nextId, calls, log, lastRecorded>>

\* getCachedIndex: loadIndex reads the file
RecentLoad(r) ==
  /\ call[r].pc = "recent.load"
  /\ call' = [call EXCEPT ![r].pc = "recent.loaded",
                          ![r].index = Owned(loadIndex, ReadTag(loads + 1))]
  /\ loads' = loads + 1
  /\ UNCHANGED <<config, failing, boot, arg, ret, http, now, ticks, cache, disk,
                 nextId, calls, answer, log, lastRecorded>>

\* getCachedIndex after its await: the cache is assigned; getRecent returns
RecentLoaded(r) ==
  /\ call[r].pc = "recent.loaded"
  /\ indexCache' = call[r].index
  /\ indexCacheTime' = call[r].cnow
  /\ answer' = [answer EXCEPT ![r] =
                  RecentAnswer(call[r].index, call[r].expect, lastRecorded)]
  /\ call' = [call EXCEPT ![r] = [Idle EXCEPT !.pc = "answered"]]
  /\ UNCHANGED <<env, now, ticks, disk, nextId, calls, log, lastRecorded>>

ConversationAnswer(id, value) ==
  [op |-> "getConversation", id |-> id, value |-> value]

\* getConversation(id), for an id that createConversation has drawn
BeginGetConversation(r) ==
  /\ config.enabled
  /\ call[r].pc = "idle"
  /\ \E n \in 1..(nextId - 1) :
       call' = [call EXCEPT ![r].pc = "get.loadIndex", ![r].id = ID_NAMES[n]]
  /\ UNCHANGED <<env, now, ticks, cache, disk, nextId, calls, answer, log, lastRecorded>>

\* loadConversation: loadIndex, then the search for the id
GetLoadIndex(r) ==
  /\ call[r].pc = "get.loadIndex"
  /\ LET path == PathOf(loadIndex, call[r].id)
     IN IF path = Null
        THEN /\ answer' = [answer EXCEPT ![r] = ConversationAnswer(call[r].id, Null)]
             /\ call' = [call EXCEPT ![r] = [Idle EXCEPT !.pc = "answered"]]
        ELSE /\ call' = [call EXCEPT ![r].pc = "get.readFile", ![r].path = path]
             /\ UNCHANGED answer
  /\ UNCHANGED <<env, now, ticks, cache, disk, nextId, calls, log, lastRecorded>>

\* loadConversation: readFile and parse, null when the read throws
GetReadFile(r) ==
  /\ call[r].pc = "get.readFile"
  /\ LET content == readFile(Get(convFiles, call[r].path))
     IN answer' = [answer EXCEPT ![r] =
                     ConversationAnswer(call[r].id,
                        IF content = NoFile THEN Null
                        ELSE parseConversationMarkdown(content))]
  /\ call' = [call EXCEPT ![r] = [Idle EXCEPT !.pc = "answered"]]
  /\ UNCHANGED <<env, now, ticks, cache, disk, nextId, calls, log, lastRecorded>>

\* the caller has the answer; the reader is free for its next operation
ReaderReturn(r) ==
  /\ call[r].pc = "answered"
  /\ call' = [call EXCEPT ![r] = Idle]
  /\ answer' = [answer EXCEPT ![r] = NoAnswer]
  /\ UNCHANGED <<env, now, ticks, cache, disk, nextId, calls, log, lastRecorded>>

\* -------------------------------------------------- more read operations

\* question.length < 10: the questions too short for a context
SHORT_QUESTIONS == {<<"why", "?">>}

\* skipPatterns: greetings, yes and no, questions about the assistant
SKIP_QUESTIONS == {<<"who", "are", "you">>}

shouldRetrieveContextAlways(question) == TRUE

shouldRetrieveContext(question) ==
  /\ question \notin SHORT_QUESTIONS
  /\ question \notin SKIP_QUESTIONS

\* config.maxContextItems = options.maxContextItems || 3
MAX_CONTEXT_ITEMS == 3

SearchAnswer(list) == [op |-> "search", value |-> list]

\* search: getCachedIndex up to its await, or to the return on a fresh cache
BeginSearch(r, queries, limits) ==
  /\ config.enabled
  /\ call[r].pc = "idle"
  /\ \E q \in queries, l \in limits :
       IF Expired(indexCacheTime, now)
       THEN /\ call' = [call EXCEPT ![r].pc = "search.load", ![r].cnow = now,
                                    ![r].question = q, ![r].i = l]
            /\ UNCHANGED answer
       ELSE /\ answer' = [answer EXCEPT ![r] =
                            SearchAnswer(searchConversations(q, indexCache, l))]
            /\ call' = [call EXCEPT ![r].pc = "answered"]
  /\ UNCHANGED <<env, now, ticks, cache, disk, nextId, calls, log, lastRecorded>>

\* getCachedIndex: loadIndex reads the file
SearchLoad(r) ==
  /\ call[r].pc = "search.load"
  /\ call' = [call EXCEPT ![r].pc = "search.loaded",
                          ![r].index = Owned(loadIndex, ReadTag(loads + 1))]
  /\ loads' = loads + 1
  /\ UNCHANGED <<config, failing, boot, arg, ret, http, now, ticks, cache, disk,
                 nextId, calls, answer, log, lastRecorded>>

\* getCachedIndex after its await: the cache is assigned; search returns
SearchLoaded(r) ==
  /\ call[r].pc = "search.loaded"
  /\ indexCache' = call[r].index
  /\ indexCacheTime' = call[r].cnow
  /\ answer' = [answer EXCEPT ![r] =
                  SearchAnswer(searchConversations(call[r].question,
                                                   call[r].index, call[r].i))]
  /\ call' = [call EXCEPT ![r] = [Idle EXCEPT !.pc = "answered"]]
  /\ UNCHANGED <<env, now, ticks, disk, nextId, calls, log, lastRecorded>>

\* { contextUsed: false, reason }
NoContext(reason) ==
  [op |-> "getRelevantContext", contextUsed |-> FALSE, reason |-> reason]

\* { contextUsed: true, ..., sources: matches.map((m) => m.id) }, with the
\* conversations of conversationsWithData
Context(matches, conversationsWithData) ==
  [op |-> "getRelevantContext", contextUsed |-> TRUE,
   sources |-> [i \in 1..Len(matches) |-> matches[i].id],
   conversations |-> conversationsWithData]

\* findRelevantConversations on the index getCachedIndex returned, then the
\* return without a match, or the loop over the matches up to its first read
Matched(cl, indexData) ==
  LET matches == findRelevantConversations(cl.question, indexData,
                   [maxResults |-> MAX_CONTEXT_ITEMS,
                    minScore |-> DEFAULT_MIN_SCORE,
                    recencyBoost |-> DEFAULT_RECENCY_BOOST])
  IN IF matches = <<>> THEN [Idle EXCEPT !.pc = "answered"]
     ELSE [cl EXCEPT !.pc = "context.loadIndex", !.recent = matches, !.i = 1,
                     !.result = <<>>]

\* what the call returns when it is over, NoAnswer while it goes on
ContextAnswer(cl) ==
  IF cl.pc # "answered" THEN NoAnswer
  ELSE IF cl.recent = <<>> THEN NoContext("No relevant conversations found")
  ELSE Context(cl.recent, cl.result)

\* getRelevantContext: shouldRetrieveContext, then getCachedIndex up to its
\* await, or to the matches on a fresh cache
BeginContext(r, questions) ==
  /\ config.enabled
  /\ call[r].pc = "idle"
  /\ \E q \in questions :
       LET cl == [call[r] EXCEPT !.question = q]
       IN IF ~shouldRetrieveContext(q)
          THEN /\ call' = [call EXCEPT ![r] = [cl EXCEPT !.pc = "answered"]]
               /\ answer' = [answer EXCEPT ![r] =
                    NoContext("Question type does not need context")]
          ELSE IF Expired(indexCacheTime, now)
          THEN /\ call' = [call EXCEPT ![r] =
                             [cl EXCEPT !.pc = "context.load", !.cnow = now]]
               /\ UNCHANGED answer
          ELSE /\ call' = [call EXCEPT ![r] = Matched(cl, indexCache)]
               /\ answer' = [answer EXCEPT ![r] = ContextAnswer(call'[r])]
  /\ UNCHANGED <<env, now, ticks, cache, disk, nextId, calls, log, lastRecorded>>

\* getCachedIndex: loadIndex reads the file
ContextLoad(r) ==
  /\ call[r].pc = "context.load"
  /\ call' = [call EXCEPT ![r].pc = "context.loaded",
                          ![r].index = Owned(loadIndex, ReadTag(loads + 1))]
  /\ loads' = loads + 1
  /\ UNCHANGED <<config, failing, boot, arg, ret, http, now, ticks, cache, disk,
                 nextId, calls, answer, log, lastRecorded>>

\* getCachedIndex after its await: the cache is assigned; then the matches
ContextLoaded(r) ==
  /\ call[r].pc = "context.loaded"
  /\ indexCache' = call[r].index
  /\ indexCacheTime' = call[r].cnow
  /\ call' = [call EXCEPT ![r] = Matched(call[r], call[r].index)]
  /\ answer' = [answer EXCEPT ![r] = ContextAnswer(call'[r])]
  /\ UNCHANGED <<env, now, ticks, disk, nextId, calls, log, lastRecorded>>

\* the loop over the matches: the next match, or the return
NextMatch(cl) ==
  IF cl.i < Len(cl.recent)
  THEN [cl EXCEPT !.i = cl.i + 1, !.pc = "context.loadIndex"]
  ELSE [Idle EXCEPT !.pc = "answered", !.recent = cl.recent,
                    !.result = cl.result]

\* loadConversation(match.id): loadIndex, then the search for the id
ContextLoadIndex(r) ==
  /\ call[r].pc = "context.loadIndex"
  /\ LET cl == call[r]
         path == PathOf(loadIndex, cl.recent[cl.i].id)
     IN call' = [call EXCEPT ![r] =
                   IF path = Null THEN NextMatch(cl)
                   ELSE [cl EXCEPT !.pc = "context.readFile", !.path = path]]
  /\ answer' = [answer EXCEPT ![r] = ContextAnswer(call'[r])]
  /\ UNCHANGED <<env, now, ticks, cache, disk, nextId, calls, log, lastRecorded>>

\* loadConversation(match.id): readFile and parse; a conversation is pushed
ContextReadFile(r) ==
  /\ call[r].pc = "context.readFile"
  /\ LET cl == call[r]
         content == readFile(Get(convFiles, cl.path))
     IN call' = [call EXCEPT ![r] =
                   IF content = NoFile THEN NextMatch(cl)
                   ELSE NextMatch([cl EXCEPT !.result =
                          Append(cl.result, parseConversationMarkdown(content))])]
  /\ answer' = [answer EXCEPT ![r] = ContextAnswer(call'[r])]
  /\ UNCHANGED <<env, now, ticks, cache, disk, nextId, calls, log, lastRecorded>>

\* getStats: the counts of an index
getStats(indexData) ==
  [totalConversations |-> indexData.totalConversations,
   totalTopics |-> Len(indexData.topics),
   totalKeywords |-> Len(indexData.keywords)]

\* { enabled: true, ...stats }
StatsAnswer(stats) ==
  [op |-> "getMemoryStats", value |-> [enabled |-> TRUE, stats |-> stats]]

\* getMemoryStats, up to getStats' loadIndex
BeginGetMemoryStats(r) ==
  /\ config.enabled
  /\ call[r].pc = "idle"
  /\ call' = [call EXCEPT ![r].pc = "stats.loadIndex"]
  /\ UNCHANGED <<env, now, ticks, cache, disk, nextId, calls, answer, log,
                 lastRecorded>>

\* getStats: loadIndex reads the file; the counts are returned
StatsLoadIndex(r) ==
  /\ call[r].pc = "stats.loadIndex"
  /\ answer' = [answer EXCEPT ![r] = StatsAnswer(getStats(loadIndex))]
  /\ call' = [call EXCEPT ![r] = [Idle EXCEPT !.pc = "answered"]]
  /\ UNCHANGED <<env, now, ticks, cache, disk, nextId, calls, log, lastRecorded>>

\* ------------------------------------------------------ failing storage

\* the fs operations a call at that position makes next
Operations(pc) ==
  CASE pc \in {"conv.open", "index.open"} -> {"mkdir", "writeFile"}
    [] pc \in {"conv.write", "index.write"} -> {"writeFile"}
    [] pc \in {"conv.rename", "index.rename"} -> {"rename"}
    [] OTHER -> {}

\* saveConversation or saveIndex rejects: the temporary file stays as it is,
\* recordConversation's catch returns
Throws(p) ==
  /\ Operations(call[p].pc) \cap failing # {}
  /\ call' = [call EXCEPT ![p] = Failed(call[p])]
  /\ fd' = [fd EXCEPT ![p] = NoFd]
  /\ log' = Append(log, LogEntry(call[p], call'[p].result))
  /\ UNCHANGED <<env, now, ticks, cache, indexFile, indexTmp, convFiles,
                 convTmp, nextId, calls, answer, lastRecorded>>

\* what can be wrong with the file system at one time: nothing, or one kind
\* of operation
FAILURES == {{}} \cup {{op} : op \in FS_OPERATIONS}

\* the file system starts or stops rejecting operations
SetFailing ==
  /\ \E ops \in FAILURES : failing' = ops
  /\ failing' # failing
  /\ UNCHANGED <<config, loads, boot, arg, ret, http, now, ticks, cache, disk, call,
                 nextId, calls, answer, log, lastRecorded>>

\* --------------------------------------------------- initializeMemory

\* a slip in initializeMemory: the catch leaves the memory enabled
InitFailedStillEnabled(cfg) == cfg

\* initializeMemory's catch: config.enabled = false
InitFailed(cfg) == [cfg EXCEPT !.enabled = FALSE]

\* one step of initializeMemory: it goes on to `next` with the files as given,
\* or the operation rejects and the catch disables the memory
InitStep(ops, next, file, tmp) ==
  /\ IF ops \cap failing # {}
     THEN /\ boot' = "failed"
          /\ config' = InitFailed(config)
          /\ UNCHANGED <<indexFile, indexTmp>>
     ELSE /\ boot' = next
          /\ indexFile' = file
          /\ indexTmp' = tmp
          /\ UNCHANGED config
  /\ UNCHANGED <<failing, loads, arg, ret, http, now, ticks, cache, convFiles,
                 convTmp, fd, call, nextId, calls, answer, log, lastRecorded>>

\* a slip in ensureDirectoryStructure: the empty index is saved without the
\* test of fs.access
accessRejects(file) == FALSE

\* fs.access(indexPath) resolves: the file is there
access(file) == file # NoFile

\* ensureDirectoryStructure: fs.mkdir of the layout; fs.access finds index.md
\* or not
InitLayout ==
  /\ boot = "layout"
  /\ InitStep({"mkdir"}, IF access(indexFile) THEN "load" ELSE "save.open",
              indexFile, indexTmp)

\* saveIndex of the empty index: fs.mkdir, fs.writeFile opens the file
InitSaveOpen ==
  /\ boot = "save.open"
  /\ InitStep({"mkdir", "writeFile"}, "save.write", indexFile, Truncated)

\* saveIndex of the empty index: fs.writeFile writes the text and closes
InitSaveWrite ==
  /\ boot = "save.write"
  /\ InitStep({"writeFile"}, "save.rename", indexFile,
              IndexMarkdown(createEmptyIndex))

\* saveIndex of the empty index: fs.rename
InitSaveRename ==
  /\ boot = "save.rename"
  /\ InitStep({"rename"}, "load", indexTmp, NoFile)

\* indexCache = await loadIndex(...); indexCacheTime = Date.now()
InitLoad ==
  /\ boot = "load"
  /\ boot' = "ready"
  /\ indexCache' = Owned(loadIndex, InitTag)
  /\ indexCacheTime' = now
  /\ UNCHANGED <<config, failing, loads, arg, ret, http, now, ticks, disk, call,
                 nextId, calls, answer, log, lastRecorded>>

initializeMemory ==
  \/ InitLayout
  \/ InitSaveOpen
  \/ InitSaveWrite
  \/ InitSaveRename
  \/ InitLoad

\* initializeMemory is called again, after a restart or by the program:
\* config.enabled = options.enabled !== false, then ensureDirectoryStructure
Reinitialize ==
  /\ boot \in {"ready", "failed"}
  /\ \A p \in Procs : call[p].pc \in {"idle", "done"}
  /\ boot' = "layout"
  /\ config' = [config EXCEPT !.enabled = TRUE]
  /\ UNCHANGED <<failing, loads, arg, ret, http, now, ticks, cache, disk, call,
                 nextId, calls, answer, log, lastRecorded>>

\* { recorded: false, reason: "Memory disabled" }
RecordDisabled(p, exchanges, sessions, maxCalls) ==
  /\ ~config.enabled
  /\ FreeSlot(p)
  /\ calls < maxCalls
  /\ \E x \in exchanges, s \in sessions :
       LET cl == [Idle EXCEPT !.question = x.question, !.answer = x.answer,
                              !.sessionId = s, !.n = calls + 1]
       IN /\ call' = [call EXCEPT ![p] =
                        Returned(cl, [recorded |-> FALSE,
                                      conversationId |-> Undefined,
                                      isNewConversation |-> FALSE,
                                      reason |-> "Memory disabled"])]
          /\ log' = Append(log, LogEntry(cl, call'[p].result))
  /\ calls' = calls + 1
  /\ UNCHANGED <<env, now, ticks, cache, disk, nextId, answer, lastRecorded>>

\* what the read operations return when the memory is disabled
DisabledAnswers ==
  {[op |-> "getRecent", recent |-> <<>>, after |-> Undefined],
   SearchAnswer(<<>>),
   NoContext("Memory disabled"),
   [op |-> "getMemoryStats", value |-> [enabled |-> FALSE]]}
    \cup {ConversationAnswer(ID_NAMES[n], Null) : n \in 1..2}

ReadDisabled(r) ==
  /\ ~config.enabled
  /\ call[r].pc = "idle"
  /\ \E a \in DisabledAnswers : answer' = [answer EXCEPT ![r] = a]
  /\ call' = [call EXCEPT ![r].pc = "answered"]
  /\ UNCHANGED <<env, now, ticks, cache, disk, nextId, calls, log, lastRecorded>>

\* ------------------------------------------------------------- the clock

Tick(durations, maxTicks) ==
  /\ ticks < maxTicks
  /\ ticks' = ticks + 1
  /\ \E d \in durations : now' = now + d
  /\ UNCHANGED <<env, cache, disk, call, nextId, calls, answer, log, lastRecorded>>

\* ------------------------------------------------------- specifications

RecordStep(p) ==
  \/ FindLoadIndex(p)
  \/ FindConvLoadIndex(p)
  \/ FindConvReadFile(p)
  \/ ConvOpen(p)
  \/ ConvWrite(p)
  \/ ConvRename(p)
  \/ IndexGet(p)
  \/ IndexLoad(p)
  \/ IndexLoaded(p)
  \/ IndexOpen(p)
  \/ IndexWrite(p)
  \/ IndexRename(p)
  \/ Finish(p)

\* getRecent after its entry
RecentStep(r) ==
  \/ RecentLoad(r)
  \/ RecentLoaded(r)

\* getConversation after its entry
GetStep(r) ==
  \/ GetLoadIndex(r)
  \/ GetReadFile(r)

ReadStep(r) ==
  \/ RecentStep(r)
  \/ GetStep(r)
  \/ ReaderReturn(r)

\* no call of another process is in flight
Quiet(p) == \A q \in Procs \ {p} : call[q].pc \in {"idle", "done"}

\* Overlapping calls: two recorders and a reader, any interleaving of their
\* file operations and continuations.
ConcExchanges == {PlainExchange}
ConcSessions == {Undefined, "s1"}
Next ==
  \/ \E p \in Recorders : BeginRecord(p, ConcExchanges, ConcSessions, MaxConcCalls)
  \/ \E p \in Recorders : RecordStep(p)
  \/ \E r \in Readers : BeginGetRecent(r)
  \/ \E r \in Readers : BeginGetConversation(r)
  \/ \E r \in Readers : ReadStep(r)
  \/ Tick({TickMs}, MaxConcTicks)

Spec == Init /\ [][Next]_vars

\* Overlapping recordConversation calls alone: two recorders, any interleaving
\* of their file operations and continuations; the clock advances between
\* bursts of calls.
NextRace ==
  \/ \E p \in Recorders : BeginRecord(p, ConcExchanges, ConcSessions, MaxRaceCalls)
  \/ \E p \in Recorders : RecordStep(p)
  \/ (\A p \in Procs : Quiet(p)) /\ Tick({TickMs}, MaxConcTicks)

SpecRace == Init /\ [][NextRace]_vars

\* Calls one after the other: a call begins when no other is in flight, and
\* the clock advances between calls.
SeqSessions == {Undefined, "s1"}
SeqStep(exchanges, durations) ==
  \/ Quiet("w1") /\ BeginRecord("w1", exchanges, SeqSessions, MaxCalls)
  \/ RecordStep("w1")
  \/ \E r \in Readers : Quiet(r) /\ BeginGetRecent(r)
  \/ \E r \in Readers : Quiet(r) /\ BeginGetConversation(r)
  \/ \E r \in Readers : ReadStep(r)
  \/ (\A p \in Procs : Quiet(p)) /\ Tick(durations, MaxTicks)

\* every kind of text, clock advances within a day and over midnight
SeqExchanges == {PlainExchange, ParenExchange, RuleExchange, StopExchange}
NextSeq == SeqStep(SeqExchanges, {TickMs, DAY_MS})
SpecSeq == Init /\ [][NextSeq]_vars

\* texts whose index line loadIndex reads back and texts whose line it skips,
\* getRecent as the only read, clock advances within a day
CapExchanges == {PlainExchange, ParenExchange}
NextCap ==
  \/ Quiet("w1") /\ BeginRecord("w1", CapExchanges, SeqSessions, MaxCalls)
  \/ RecordStep("w1")
  \/ \E r \in Readers : Quiet(r) /\ BeginGetRecent(r)
  \/ \E r \in Readers : RecentStep(r) \/ ReaderReturn(r)
  \/ (\A p \in Procs : Quiet(p)) /\ Tick({TickMs}, MaxTicks)

SpecCap == Init /\ [][NextCap]_vars

\* plain text only, clock advances within a day and over midnight
PlainExchanges == {PlainExchange}
NextPlain == SeqStep(PlainExchanges, {TickMs, DAY_MS})
SpecPlain == Init /\ [][NextPlain]_vars

\* A file system that rejects operations: initializeMemory on a new storage
\* path, then calls one after the other, while any set of fs operations starts
\* or stops failing between any two steps.
FailExchanges == {PlainExchange}
FailQuestions == {<<"jwt", "token">>, <<"why", "?">>, <<"who", "are", "you">>}
FailSessions == {"s1"}
Started == boot \in {"ready", "failed"}

Uninitialized ==
  /\ now = 0
  /\ ticks = 0
  /\ indexCache = Null
  /\ indexCacheTime = 0
  /\ indexFile = NoFile
  /\ indexTmp = NoFile
  /\ convFiles = <<>>
  /\ convTmp = <<>>
  /\ fd = [p \in Procs |-> NoFd]
  /\ call = [p \in Procs |-> Idle]
  /\ nextId = 1
  /\ calls = 0
  /\ answer = [r \in Readers |-> NoAnswer]
  /\ log = <<>>
  /\ lastRecorded = Undefined
  /\ config = [enabled |-> TRUE]
  /\ loads = 0
  /\ boot = "layout"
  /\ activeRequests = 0
  /\ requests = [q \in Requests |-> NoRequest]

InitFail ==
  /\ Uninitialized
  /\ failing \in FAILURES
  /\ arg = Null
  /\ ret = Null

ReadBegin(r) ==
  \/ BeginGetRecent(r)
  \/ BeginGetConversation(r)
  \/ BeginSearch(r, FailQuestions, {MaxLimit})
  \/ BeginContext(r, FailQuestions)
  \/ BeginGetMemoryStats(r)

MoreReadStep(r) ==
  \/ SearchLoad(r)
  \/ SearchLoaded(r)
  \/ ContextLoad(r)
  \/ ContextLoaded(r)
  \/ ContextLoadIndex(r)
  \/ ContextReadFile(r)
  \/ StatsLoadIndex(r)

NextFail ==
  \/ SetFailing
  \/ initializeMemory
  \/ Started /\ Quiet("w1") /\ BeginRecord("w1", FailExchanges, FailSessions, MaxFailCalls)
  \/ RecordStep("w1")
  \/ Throws("w1")
  \/ Started /\ Quiet("w1") /\ RecordDisabled("w1", FailExchanges, FailSessions, MaxFailCalls)
  \/ \E r \in Readers : Started /\ Quiet(r) /\ ReadBegin(r)
  \/ \E r \in Readers : ReadStep(r)
  \/ \E r \in Readers : MoreReadStep(r)
  \/ \E r \in Readers : Started /\ Quiet(r) /\ ReadDisabled(r)
  \/ Started /\ (\A p \in Procs : Quiet(p)) /\ Tick({TickMs}, MaxFailTicks)

SpecFail == InitFail /\ [][NextFail]_vars

\* -------------------------------------------- initializeMemory called again

\* total number of recordConversation calls when initializeMemory runs again
MaxBootCalls == 3

\* one process records, with and without a session; initializeMemory runs at
\* the start and again at any quiet moment
InitReinit ==
  /\ Uninitialized
  /\ failing = {}
  /\ arg = Null
  /\ ret = Null

NextReinit ==
  \/ initializeMemory
  \/ Reinitialize
  \/ Started /\ Quiet("w1") /\ BeginRecord("w1", CapExchanges, SeqSessions, MaxBootCalls)
  \/ RecordStep("w1")
  \/ Started /\ (\A p \in Procs : Quiet(p)) /\ Tick({TickMs}, MaxTicks)

SpecReinit == InitReinit /\ [][NextReinit]_vars

\* ------------------------------------------------------- the HTTP server

\* parseInt(process.env.MAX_CONCURRENT_REQUESTS || "2", 10)
MAX_CONCURRENT == 2

\* what the server leaves alone
memory == <<now, ticks, cache, disk, call, nextId, calls, answer, log,
            lastRecorded, config, failing, loads, boot, arg, ret>>

\* the children that are alive: spawned and not yet closed
Alive == {"running", "terminating"}

\* a slip in executeWithConcurrencyLimit: > for >=
AtCapacityOffByOne(n) == n > MAX_CONCURRENT

\* activeRequests >= MAX_CONCURRENT
AtCapacity(n) == n >= MAX_CONCURRENT

\* the promise of invokeClaudeCode settles and the finally block of
\* executeWithConcurrencyLimit runs: activeRequests--; POST /ask responds
Settle(q, status, child) ==
  /\ activeRequests' = activeRequests - 1
  /\ requests' = [requests EXCEPT ![q] =
                    [pc |-> "responded", status |-> status, child |-> child,
                     released |-> requests[q].released + 1]]

\* POST /ask reaches executeWithConcurrencyLimit: at capacity it throws and the
\* response is 503; otherwise activeRequests++ and invokeClaudeCode spawns the
\* child, or fails to
Ask(q) ==
  /\ requests[q].pc = "idle"
  /\ IF AtCapacity(activeRequests)
     THEN /\ requests' = [requests EXCEPT ![q] =
                            [NoRequest EXCEPT !.pc = "responded", !.status = 503]]
          /\ UNCHANGED activeRequests
     ELSE /\ activeRequests' = activeRequests + 1
          /\ \E child \in {"running", "failed"} :
               requests' = [requests EXCEPT ![q] =
                              [NoRequest EXCEPT !.pc = "invoking",
                                                !.child = child]]
  /\ UNCHANGED memory

\* child.on('error'): the spawn failed, the promise rejects; 500
SpawnError(q) ==
  /\ requests[q].pc = "invoking"
  /\ requests[q].child = "failed"
  /\ Settle(q, 500, "none")
  /\ UNCHANGED memory

\* child.on('close') before the timeout: clearTimeout, then resolve for code 0
\* and reject for another code; 200 or 500
Close(q) ==
  /\ requests[q].pc = "invoking"
  /\ requests[q].child = "running"
  /\ \E status \in {200, 500} : Settle(q, status, "closed")
  /\ UNCHANGED memory

\* the timeout fires: child.kill('SIGTERM') and reject; 504.  The child is
\* alive until it closes; child.killed is true from here on, so that the
\* SIGKILL of the second timer is not sent
Timeout(q) ==
  /\ requests[q].pc = "invoking"
  /\ requests[q].child = "running"
  /\ Settle(q, 504, "terminating")
  /\ UNCHANGED memory

\* child.on('close') after the timeout: the promise is settled already
CloseAfterTimeout(q) ==
  /\ requests[q].child = "terminating"
  /\ requests' = [requests EXCEPT ![q].child = "closed"]
  /\ UNCHANGED <<memory, activeRequests>>

\* the response is sent and the child is gone: another request may arrive
Forget(q) ==
  /\ requests[q].pc = "responded"
  /\ requests[q].child \notin Alive
  /\ requests' = [requests EXCEPT ![q] = NoRequest]
  /\ UNCHANGED <<memory, activeRequests>>

InitServer ==
  /\ Initialized
  /\ arg = Null
  /\ ret = Null

NextServer ==
  \E q \in Requests :
    \/ Ask(q)
    \/ SpawnError(q)
    \/ Close(q)
    \/ Timeout(q)
    \/ CloseAfterTimeout(q)
    \/ Forget(q)

SpecServer == InitServer /\ [][NextServer]_vars

\* the instance's state, which a function applied on its own leaves alone
instance == <<now, ticks, cache, disk, call, nextId, calls, answer, log,
              lastRecorded, config, failing, loads, boot, http>>

\* findRelevantConversations applied to a question, an index and options
InitRetrieve ==
  /\ Initialized
  /\ arg \in RetrieveArgs
  /\ ret = Null

Retrieve ==
  /\ ret = Null
  /\ ret' = [returned |-> findRelevantConversations(arg.question, arg.index,
                                                    arg.options)]
  /\ UNCHANGED <<instance, arg>>

NextRetrieve == Retrieve
SpecRetrieve == InitRetrieve /\ [][NextRetrieve]_vars

\* the sessionIds of conversations that are appended to: a string the caller
\* gave, or the text "undefined" read back from a file written without one
RoundTripSessions == {"s1", UndefinedText}

RECURSIVE ConversationOf(_, _)
\* the conversation that createConversation and appendToConversation make of
\* the exchanges, one clock advance apart
ConversationOf(exchanges, sessionId) ==
  LET n == Len(exchanges)
      x == exchanges[n]
      keywords == extractKeywordsFromExchange(x.question, x.answer)
      topics == extractTopicsFromExchange(x.question, x.answer)
  IN IF n = 1
     THEN createConversation("c1", sessionId, x.question, x.answer, keywords,
                             topics, 0)
     ELSE appendToConversation(ConversationOf(SubSeq(exchanges, 1, n - 1),
                                              sessionId),
                               x.question, x.answer, keywords, topics,
                               (n - 1) * TickMs)

\* conversations of two or more exchanges that have keywords and topics
RoundTripConversations ==
  {c \in {ConversationOf(xs, s) :
            xs \in UNION {[1..n -> SeqExchanges] : n \in 2..MaxExchanges},
            s \in RoundTripSessions} :
     c.keywords # <<>> /\ c.topics # <<>>}

\* parseConversationMarkdown(generateConversationMarkdown(c))
InitRoundTrip ==
  /\ Initialized
  /\ arg \in {[conversation |-> c] : c \in RoundTripConversations}
  /\ ret = Null

RoundTrip ==
  /\ ret = Null
  /\ ret' = [returned |-> parseConversationMarkdown(
                            generateConversationMarkdown(arg.conversation))]
  /\ UNCHANGED <<instance, arg>>

NextRoundTrip == RoundTrip
SpecRoundTrip == InitRoundTrip /\ [][NextRoundTrip]_vars

\* formatContextForInjection applied to matches and a budget.  An exchange
\* text of 40 characters (10 tokens), of 200 (50 tokens), of 1009 (253 tokens).
FormatExchangeTexts ==
  {[question |-> 11, answer |-> 20], [question |-> 100, answer |-> 91],
   [question |-> 500, answer |-> 500]}

FormatMatchesOf(n) ==
  [1..n -> [exchanges : UNION {[1..k -> FormatExchangeTexts] :
                                 k \in 0..MaxMatchExchanges}]]

\* the budgets: the scenario's 50, the least budget that leaves room for a
\* truncated piece, and larger ones; 280 holds the longest text and a short one
FormatBudgets == {50, 61, 100, 280}

FormatArgs ==
  [matches : UNION {FormatMatchesOf(n) : n \in 0..MaxMatches},
   maxTokens : FormatBudgets]

InitFormat ==
  /\ Initialized
  /\ arg \in FormatArgs
  /\ ret = Null

Format ==
  /\ ret = Null
  /\ ret' = [returned |-> formatContextForInjection(arg.matches, arg.maxTokens)]
  /\ UNCHANGED <<instance, arg>>

NextFormat == Format
SpecFormat == InitFormat /\ [][NextFormat]_vars

\* the texts of at most MaxWords words over a vocabulary
TextsOver(words) == UNION {[1..n -> words] : n \in 0..MaxWords}

\* extractKeywords applied to a text: words, words of digits, a stop word, a
\* punctuation character
KeywordWords == {"jwt", "token", "404", "200", "why", "?"}

InitKeywords ==
  /\ Initialized
  /\ arg \in [text : TextsOver(KeywordWords), maxKeywords : {2, MAX_KEYWORDS}]
  /\ ret = Null

ExtractKeywords ==
  /\ ret = Null
  /\ ret' = [returned |-> extractKeywords(arg.text, arg.maxKeywords)]
  /\ UNCHANGED <<instance, arg>>

NextKeywords == ExtractKeywords
SpecKeywords == InitKeywords /\ [][NextKeywords]_vars

\* extractTopics applied to a text: keywords of the topic security (one of
\* them also in capitals, and once as a part of a hyphenated word), keywords
\* of the topic database (one of them too short for a token), and other words
TopicWords ==
  {"jwt", "JWT", "token", "jwt-token", "sql", "query", "db", "signed", "?"}

InitTopics ==
  /\ Initialized
  /\ arg \in [text : TextsOver(TopicWords)]
  /\ ret = Null

ExtractTopics ==
  /\ ret = Null
  /\ ret' = [returned |-> extractTopics(arg.text)]
  /\ UNCHANGED <<instance, arg>>

NextTopics == ExtractTopics
SpecTopics == InitTopics /\ [][NextTopics]_vars

\* loadIndex after saveIndex, applied to the indexes that updateIndex makes
\* of conversations with every kind of text, created one after the other: from
\* the index a new instance loads, and from the empty index loadIndex returns
\* when index.md cannot be read
IndexExchanges == {PlainExchange, ParenExchange, StopExchange, ErrorExchange}
IndexBases ==
  {createEmptyIndex, parseIndexMarkdown(IndexMarkdown(createEmptyIndex))}

RECURSIVE IndexAfter(_, _)
IndexAfter(exchanges, base) ==
  LET n == Len(exchanges)
      x == exchanges[n]
      c == createConversation(ID_NAMES[n], Undefined, x.question, x.answer,
             extractKeywordsFromExchange(x.question, x.answer),
             extractTopicsFromExchange(x.question, x.answer), 0)
  IN IF n = 0 THEN base
     ELSE updateIndex(IndexAfter(SubSeq(exchanges, 1, n - 1), base), c,
                      ConvPath(getDateDirectory(0), c.id),
                      [by |-> "call", n |-> n])

InitIndexRoundTrip ==
  /\ Initialized
  /\ arg \in {[index |-> IndexAfter(xs, base)] :
                xs \in UNION {[1..n -> IndexExchanges] : n \in 1..MaxUpdates},
                base \in IndexBases}
  /\ ret = Null

\* saveIndex writes the text of the index, loadIndex reads and parses it
IndexRoundTrip ==
  /\ ret = Null
  /\ ret' = [returned |-> loadIndexFrom(IndexMarkdown(arg.index))]
  /\ UNCHANGED <<instance, arg>>

NextIndexRoundTrip == IndexRoundTrip
SpecIndexRoundTrip == InitIndexRoundTrip /\ [][NextIndexRoundTrip]_vars

\* ---------------------------------------------------------------- claims

\* the content is what one fs.writeFile call wrote from its first character to
\* its last
Complete(content) == content # Truncated /\ ~IsMixed(content)

\* C1: whatever a reader can obtain from a final path (index.md, or the file
\* of a conversation) is at every moment the complete content of exactly one
\* write: never an opened, not yet written file, and never the overlay of two
\* writes.
C1_FinalPathsHoldOneCompleteWrite ==
  /\ Complete(indexFile)
  /\ \A path \in DOMAIN convFiles : Complete(convFiles[path])

\* C2: a getRecent call made after recordConversation returned recorded=true
\* for conversation c, with no other record begun before the answer, is
\* answered from an index whose recent list has c at its head, in every
\* interleaving with other reads' cache refreshes.
C2_RecentHeadIsLastRecorded ==
  \A r \in Readers :
    (answer[r].op = "getRecent" /\ answer[r].after # Undefined)
      => /\ answer[r].recent # <<>>
         /\ answer[r].recent[1].id = answer[r].after

\* the ids in the recent list of the index that index.md holds
PersistedIds == RecentIds(loadIndexFrom(indexFile))

\* two calls have returned recorded=true for two conversations that were both
\* new to the index each of them was handed, and they were handed the same
\* index
SameIndexUpdatedTwice ==
  LET a == call["w1"]
      b == call["w2"]
  IN /\ a.pc = "done" /\ b.pc = "done"
     /\ a.result.recorded /\ b.result.recorded
     /\ a.result.conversationId # b.result.conversationId
     /\ a.index = b.index
     /\ a.result.conversationId \notin RecentIds(a.index)
     /\ b.result.conversationId \notin RecentIds(b.index)

\* C3: lost update. When two recordConversation calls obtained the same index,
\* each applied updateIndex to it and wrote it back, the persisted index has
\* exactly one of the two conversations in recent: the later write replaced
\* the earlier one.
C3_SameIndexKeepsOnlyOneUpdate ==
  SameIndexUpdatedTwice
    => Cardinality({call["w1"].result.conversationId,
                    call["w2"].result.conversationId} \cap PersistedIds) = 1

\* two overlapping calls of different sessions reach that state, and index.md
\* holds the conversation of the second only
C3_LostUpdateReached ==
  /\ SameIndexUpdatedTwice
  /\ call["w1"].sessionId # call["w2"].sessionId
  /\ call["w1"].result.conversationId \notin PersistedIds
  /\ call["w2"].result.conversationId \in PersistedIds

\* process p is in a call that creates a conversation and is at the last step
\* of its saveConversation
CreatorRenames(p) == call[p].pc = "conv.rename" /\ call[p].read = Null

\* process p takes a step of a call that appends to the conversation at path
AppenderSteps(p, path) ==
  /\ call[p].read # Null
  /\ call[p].sessionId # Undefined
  /\ call[p].relativePath = path
  /\ call'[p] # call[p]

\* C4: when the saveConversation of a call that creates a conversation has
\* completed, the conversation's file exists and holds the complete text with
\* the call's exchange; and a conversation file that exists is never removed,
\* and never changed by a step of a call that creates another conversation
\* (only a call appending to that conversation, under its sessionId, rewrites
\* it), whatever happens to the index.
C4_ConversationFilesAreKept ==
  [][/\ \A p \in Recorders :
          (CreatorRenames(p) /\ call'[p].pc # "conv.rename")
            => /\ call[p].relativePath \in DOMAIN convFiles'
               /\ convFiles'[call[p].relativePath]
                    = generateConversationMarkdown(call[p].conversation)
               /\ parseConversationMarkdown(
                     convFiles'[call[p].relativePath]).exchanges
                    = <<[timestamp |-> call[p].conversation.created,
                         question |-> call[p].question,
                         answer |-> call[p].answer]>>
     /\ \A path \in DOMAIN convFiles :
          /\ path \in DOMAIN convFiles'
          /\ \/ convFiles'[path] = convFiles[path]
             \/ \E p \in Recorders : AppenderSteps(p, path)]_vars

\* two overlapping calls created two conversations; both files are there,
\* complete, although index.md lists only one of the two
C4_BothFilesKeptIndexLostOne ==
  /\ SameIndexUpdatedTwice
  /\ \E p1, p2 \in DOMAIN convFiles :
       /\ p1.id = call["w1"].result.conversationId
       /\ p2.id = call["w2"].result.conversationId
       /\ Complete(convFiles[p1]) /\ Complete(convFiles[p2])
       /\ Len(parseConversationMarkdown(convFiles[p1]).exchanges) = 1
       /\ Len(parseConversationMarkdown(convFiles[p2]).exchanges) = 1
       /\ p1.id \notin PersistedIds

\* the position in the log of the last successful record of conversation id,
\* 0 when there is none
LastRecordOf(id) ==
  LET hits == {i \in 1..Len(log) : /\ log[i].result.recorded
                                   /\ log[i].result.conversationId = id}
  IN IF hits = {} THEN 0 ELSE CHOOSE i \in hits : \A j \in hits : j <= i

\* every entry was recorded, and later than the entries after it
MostRecentFirst(recent) ==
  /\ \A i \in 1..Len(recent) : LastRecordOf(recent[i].id) > 0
  /\ \A i, j \in 1..Len(recent) :
       i < j => LastRecordOf(recent[i].id) > LastRecordOf(recent[j].id)

\* the call of process p has applied updateIndex
HasUpdated(p) ==
  call[p].pc \in {"index.open", "index.write", "index.rename", "finish"}

\* the call of process p inserts a conversation into a full recent list
InsertsIntoFull(p) ==
  /\ HasUpdated(p)
  /\ Len(call[p].index.recent) = RecentCap
  /\ call[p].conversation.id \notin RecentIds(call[p].index)

\* what holds of the recent lists in every state
RecentShape ==
  /\ Len(indexCache.recent) <= RecentCap
  /\ MostRecentFirst(indexCache.recent)
  /\ Complete(indexFile)
  /\ Len(indexFile.recent) <= RecentCap
  /\ (\A p \in Recorders : call[p].pc \in {"idle", "done"})
       => MostRecentFirst(indexFile.recent)
  /\ lastRecorded # Undefined => indexFile.recent[1].id = lastRecorded
  /\ \A p \in Recorders :
       InsertsIntoFull(p)
         => SubSeq(call[p].updatedIndex.recent, 2, RecentCap)
              = SubSeq(call[p].index.recent, 1, RecentCap - 1)

\* C5: after any number of recordConversation calls made one after the other,
\* the recent list of the index (the cached one and the one in index.md) has at
\* most RecentCap entries (50 in the source) and is ordered most-recent-first:
\* each entry's last record is later than that of the entries after it; when a
\* call returns recorded=true its conversation, created or appended to, is at
\* position 0 of the cached index and of index.md; and inserting into a full
\* list gives the new entry followed by the old list without its tail entry.
C5_RecentCappedMostRecentFirst ==
  [][/\ RecentShape'
     /\ \A p \in Recorders :
          (call[p].pc = "finish" /\ call'[p].pc = "done")
            => /\ call'[p].result.recorded
               /\ indexCache'.recent[1].id = call'[p].result.conversationId
               /\ indexFile'.recent[1].id = call'[p].result.conversationId]_vars

\* a call has inserted a new conversation into a full list and is about to
\* return: the old tail entry is not in the list it made
C5_TailEvicted ==
  \E p \in Recorders :
    /\ call[p].pc = "finish"
    /\ InsertsIntoFull(p)
    /\ call[p].index.recent[RecentCap].id \notin RecentIds(call[p].updatedIndex)

\* C6: all the calls made one after the other under the same non-empty
\* sessionId that returned recorded=true returned the same conversationId: no
\* second conversation is created for the session, whatever was recorded for
\* other sessions in between.
C6_OneConversationPerSession ==
  \A i, j \in 1..Len(log) :
    (/\ log[i].sessionId # Undefined
     /\ log[i].sessionId = log[j].sessionId
     /\ log[i].result.recorded /\ log[j].result.recorded)
      => log[i].result.conversationId = log[j].result.conversationId

\* the exchange a logged call recorded, without its timestamp
Recorded(entry) == [question |-> entry.question, answer |-> entry.answer]

WithoutTimestamps(exchanges) ==
  [i \in 1..Len(exchanges) |->
     [question |-> exchanges[i].question, answer |-> exchanges[i].answer]]

\* the conversation stored under the path that the first line of index.md's
\* recent list names
StoredAtHead ==
  parseConversationMarkdown(Get(convFiles, indexFile.recent[1].path))

\* C7: of two consecutive recordConversation calls with the same non-empty
\* sessionId, the second returns the conversationId of the first; and when the
\* first created the conversation, the stored conversation has exactly the two
\* exchanges, in call order, once the second has returned.
C7_SecondCallAppends ==
  \A i \in 1..(Len(log) - 1) :
    (/\ log[i].sessionId # Undefined
     /\ log[i].sessionId = log[i + 1].sessionId
     /\ log[i].result.recorded /\ log[i + 1].result.recorded)
      => /\ log[i + 1].result.conversationId = log[i].result.conversationId
         /\ (/\ i + 1 = Len(log)
             /\ lastRecorded # Undefined
             /\ log[i].result.isNewConversation)
              => WithoutTimestamps(StoredAtHead.exchanges)
                   = <<Recorded(log[i]), Recorded(log[i + 1])>>

\* C8: a conversation id has one file on disk, and the file is in the directory
\* named by the UTC date of the conversation's creation: a call appending on a
\* later UTC date rewrites that file and makes no second file for the id.
C8_OneFileInCreationDateDirectory ==
  /\ \A p1, p2 \in DOMAIN convFiles : p1.id = p2.id => p1 = p2
  /\ \A path \in DOMAIN convFiles :
       path.dir = DateOf(parseConversationMarkdown(convFiles[path]).created)

\* the exchanges that the successful records of conversation id recorded, in
\* the order of the calls
RecordedExchanges(id) ==
  LET mine == SelectSeq(log, LAMBDA e : /\ e.result.recorded
                                        /\ e.result.conversationId = id)
  IN [i \in 1..Len(mine) |-> Recorded(mine[i])]

\* C9: getConversation(id), for an id that a successful recordConversation
\* returned, returns that conversation with all its recorded exchanges (never
\* null), however many conversations were recorded after it.
C9_RecordedConversationIsReturned ==
  \A r \in Readers :
    (answer[r].op = "getConversation" /\ LastRecordOf(answer[r].id) > 0)
      => /\ answer[r].value # Null
         /\ answer[r].value.id = answer[r].id
         /\ WithoutTimestamps(answer[r].value.exchanges)
              = RecordedExchanges(answer[r].id)

\* the call of process p appends to a conversation it loaded, and its
\* saveConversation has completed
HasAppended(p) ==
  /\ call[p].read # Null
  /\ call[p].pc \in {"index.get", "index.load", "index.loaded", "index.open",
                     "index.write", "index.rename", "finish"}

\* the text of one more exchange after the text of the earlier ones
OneMoreExchange(cl) ==
  <<Rule, Hdr(cl.conversation.updated)>> \o TextOf(cl.question)
    \o <<AnsMark>> \o TextOf(cl.answer)

\* C10: a recordConversation call that appends to a stored conversation leaves
\* the conversation's id, its creation time and the text of every earlier
\* exchange as they were on disk: the file it writes is the file it loaded
\* followed by exactly one new exchange, the call's.
C10_AppendKeepsEarlierExchanges ==
  \A p \in Recorders :
    HasAppended(p)
      => LET before == call[p].read
             after == Get(convFiles, call[p].relativePath)
         IN /\ after # NoFile
            /\ after.id = before.id
            /\ after.created = before.created
            /\ after.body = before.body \o OneMoreExchange(call[p])

\* the conversation file of the call of process p holds the conversation the
\* call made
ConversationPersisted(p) ==
  Get(convFiles, call[p].relativePath)
    = generateConversationMarkdown(call[p].conversation)

\* index.md holds the updated index of the call of process p
IndexPersisted(p) == indexFile = SavedIndex(call[p])

\* the call of process p is inside saveIndex
InSaveIndex(p) == call[p].pc \in {"index.open", "index.write", "index.rename"}

AllScored ==
  findRelevantConversations(arg.question, arg.index,
    [arg.options EXCEPT !.minScore = 0, !.maxResults = Len(arg.index.topics)
        + Len(arg.index.keywords) + Len(arg.index.recent) + 9])

\* C19: for every question, index and options (maxResults a count, zero
\* included), findRelevantConversations returns at most maxResults entries,
\* and no returned entry has a score below minScore.
C19_AtMostMaxResultsNoneBelowMinScore ==
  ret # Null
    => /\ Len(ret.returned) <= arg.options.maxResults
       /\ \A i \in 1..Len(ret.returned) :
            ret.returned[i].score >= arg.options.minScore

\* a call where a scored conversation was below minScore and where more
\* conversations passed than maxResults allows
C19_FilteredAndCut ==
  /\ ret # Null
  /\ arg.options.maxResults > 0
  /\ Len(ret.returned) = arg.options.maxResults
  /\ \E i \in 1..Len(AllScored) : AllScored[i].score < arg.options.minScore
  /\ Cardinality({i \in 1..Len(AllScored) :
                    AllScored[i].score >= arg.options.minScore})
       > arg.options.maxResults

\* C20 as stated: the entries returned by findRelevantConversations are sorted
\* strictly descending by score, each entry's score greater than the next
\* one's.
C20_StrictlyDescending ==
  ret # Null
    => \A i \in 1..(Len(ret.returned) - 1) :
         ret.returned[i].score > ret.returned[i + 1].score

\* C20 amended: the entries are sorted descending by score, each entry's score
\* greater than or equal to the next one's (entries of equal score follow one
\* another).
C20_Descending ==
  ret # Null
    => \A i \in 1..(Len(ret.returned) - 1) :
         ret.returned[i].score >= ret.returned[i + 1].score

\* three entries came back: the first above the others, and two of equal score
\* that are matched through the same topic only and are not in recent
C20_TieAfterDescent ==
  /\ ret # Null
  /\ Len(ret.returned) = 3
  /\ ret.returned[1].score > ret.returned[2].score
  /\ ret.returned[2].score = ret.returned[3].score
  /\ ret.returned[2].score = TOPIC_BONUS
  /\ {ret.returned[2].id, ret.returned[3].id}
       \cap RecentIds(arg.index) = {}

\* C18: recordConversation returns isNewConversation = true exactly when the
\* call created a new conversation (no sessionId was given, or no stored
\* conversation was found for it) and false exactly when it appended to the
\* conversation it found; a call without sessionId creates a conversation
\* whose id no call returned before.
C18_IsNewExactlyWhenCreated ==
  [][\A p \in Recorders :
       call[p].pc = "finish" /\ call'[p].pc = "done"
         => /\ call'[p].result.recorded
            /\ call'[p].result.isNewConversation = (call[p].read = Null)
            /\ call[p].read = Null
                 => Len(call[p].conversation.exchanges) = 1
            /\ call[p].read # Null
                 => call[p].conversation.id
                      = parseConversationMarkdown(call[p].read).id
            /\ call[p].sessionId = Undefined
                 => /\ call[p].read = Null
                    /\ \A i \in 1..Len(log) :
                         log[i].result.conversationId
                           # call'[p].result.conversationId]_vars

\* a call with a sessionId created a conversation, a later call with the same
\* sessionId appended to it, and a call without sessionId created another
C18_CreatedThenAppended ==
  \E i, j, k \in 1..Len(log) :
    /\ i < j
    /\ log[i].sessionId = "s1" /\ log[i].result.recorded
    /\ log[i].result.isNewConversation
    /\ log[j].sessionId = "s1" /\ log[j].result.recorded
    /\ ~log[j].result.isNewConversation
    /\ log[j].result.conversationId = log[i].result.conversationId
    /\ log[k].sessionId = Undefined /\ log[k].result.isNewConversation

\* totalConversations of the index is the number of distinct ids in its recent
\* list
CountsRecent(indexData) ==
  indexData.totalConversations = Cardinality(RecentIds(indexData))

\* C15: in every index observable after any sequence of recordConversation
\* calls, the cached one and the one reloaded from index.md, totalConversations
\* equals the number of distinct conversation ids in that index's recent list.
C15_TotalCountsRecent ==
  /\ CountsRecent(indexCache)
  /\ CountsRecent(loadIndexFrom(indexFile))

\* C17: for every conversation with at least two exchanges, keywords and
\* topics, parseConversationMarkdown(generateConversationMarkdown(c)) has the
\* same id, the same sessionId, the same number of exchanges, and every
\* exchange's question and answer text equal to the original, for any answer
\* text, a text with a horizontal-rule line in it included.
C17_ConversationRoundTrip ==
  ret # Null
    => LET c == arg.conversation
           r == ret.returned
       IN /\ r.id = c.id
          /\ r.sessionId = c.sessionId
          /\ Len(r.exchanges) = Len(c.exchanges)
          /\ \A i \in 1..Len(r.exchanges) :
               i <= Len(c.exchanges)
                 => /\ r.exchanges[i].question = c.exchanges[i].question
                    /\ r.exchanges[i].answer = c.exchanges[i].answer

\* C16: getConversation, like search, getRecent and getStats, is answered
\* from the cached index: a call made while the cache is younger than the TTL,
\* with no record in flight, does not go by the index file, so it returns a
\* conversation exactly when the cached index, which getRecent reports, lists
\* the id.
C16_AnsweredFromCache ==
  [][\A r \in Readers :
       /\ call[r].pc \in {"get.loadIndex", "get.readFile"}
       /\ call'[r].pc = "answered"
       /\ Quiet(r)
       /\ ~Expired(indexCacheTime, now)
       => (answer'[r].value = Null
             <=> PathOf(indexCache, answer'[r].id) = Null)]_vars

\* no topics, no keywords, an empty recent list, totalConversations 0
IsEmptyIndex(indexData) ==
  /\ indexData.totalConversations = 0
  /\ indexData.topics = <<>>
  /\ indexData.keywords = <<>>
  /\ indexData.recent = <<>>

\* the step is a loadIndex of the call of p at one of the positions
Loads(p, positions) == call[p].pc \in positions /\ call'[p].pc # call[p].pc

\* C14: a failed read is treated as absence.  When index.md cannot be read,
\* loadIndex returns an empty index (no topics, no keywords, empty recent,
\* totalConversations 0) to getCachedIndex and to getStats; loadConversation
\* returns null when the index or the conversation file cannot be read or the
\* id is not listed; the call goes on to its next position or returns.
C14_FailedReadIsAbsence ==
  [][/\ \A p \in Recorders :
          Loads(p, {"index.load"}) /\ "readFile" \in failing
            => IsEmptyIndex(call'[p].index)
     /\ \A r \in Readers :
          /\ Loads(r, {"recent.load", "search.load", "context.load"})
               /\ "readFile" \in failing
               => IsEmptyIndex(call'[r].index)
          /\ Loads(r, {"stats.loadIndex"}) /\ "readFile" \in failing
               => answer'[r].value.stats = getStats(createEmptyIndex)
          /\ Loads(r, {"get.loadIndex", "get.readFile"})
               /\ \/ "readFile" \in failing
                  \/ PathOf(loadIndexFrom(indexFile), call[r].id) = Null
               => /\ call'[r].pc = "answered"
                  /\ answer'[r] = ConversationAnswer(call[r].id, Null)]_vars

\* getConversation returned null for a conversation that index.md lists and
\* whose file is on disk, while reads fail
C14_UnreadableConversationIsNull ==
  \E r \in Readers :
    /\ "readFile" \in failing
    /\ answer[r].op = "getConversation"
    /\ answer[r].value = Null
    /\ PathOf(loadIndexFrom(indexFile), answer[r].id) # Null
    /\ PathOf(loadIndexFrom(indexFile), answer[r].id) \in DOMAIN convFiles

\* the disabled result of a read operation: [] for getRecent and search,
\* null for getConversation, contextUsed false for getRelevantContext
IsDisabledAnswer(a) ==
  /\ a.op = "getRecent" => a.recent = <<>>
  /\ a.op = "search" => a.value = <<>>
  /\ a.op = "getConversation" => a.value = Null
  /\ a.op = "getRelevantContext" => ~a.contextUsed
  /\ a.op = "getMemoryStats" => ~a.value.enabled

\* C13: when creating the storage layout fails during initializeMemory, the
\* call returns with the memory disabled (isMemoryEnabled() is false from then
\* on), and every later recordConversation, getRelevantContext, search,
\* getRecent and getConversation call returns its disabled result in one step
\* that reads no file and leaves the files and the cache as they are.
C13_FailedInitializationDisables ==
  [][/\ boot' = "failed" => ~config'.enabled
     /\ boot = "failed"
          => /\ boot' = "failed"
             /\ disk' = disk
             /\ cache' = cache
             /\ loads' = loads
             /\ \A p \in Recorders :
                  call'[p] # call[p]
                    => /\ call'[p].pc = "done"
                       /\ ~call'[p].result.recorded
                       /\ call'[p].result.conversationId = Undefined
             /\ \A r \in Readers :
                  /\ call'[r].pc \in {"idle", "answered"}
                  /\ answer'[r] \notin {answer[r], NoAnswer}
                       => IsDisabledAnswer(answer'[r])]_vars

\* initializeMemory failed, a recordConversation call returned recorded false
\* and getRelevantContext returned contextUsed false
C13_DisabledCallsAnswered ==
  /\ boot = "failed"
  /\ log # <<>>
  /\ \E r \in Readers : answer[r].op = "getRelevantContext"

\* the step of p is an fs operation of saveConversation or saveIndex that
\* rejects
WriteFails(p) ==
  /\ Operations(call[p].pc) \cap failing # {}
  /\ call'[p] # call[p]

\* recordConversation returns { recorded: false, error }
ReturnsError(cl) ==
  /\ cl.pc = "done"
  /\ ~cl.result.recorded
  /\ "error" \in DOMAIN cl.result
  /\ "rejected" \notin DOMAIN cl.result

\* the step of r answers a read operation whose read of index.md or of the
\* conversation file failed
AnswersAfterFailedRead(r) ==
  /\ call'[r].pc = "answered"
  /\ \/ /\ Loads(r, {"recent.loaded", "search.loaded", "context.loaded"})
        /\ IsEmptyIndex(call[r].index)
     \/ /\ Loads(r, {"get.loadIndex", "get.readFile", "stats.loadIndex",
                      "context.loadIndex", "context.readFile"})
        /\ "readFile" \in failing

\* an empty list (getRecent, search), {contextUsed:false, error}, or null
\* (getConversation, getMemoryStats)
IsErrorResult(a) ==
  CASE a.op = "getRecent" -> a.recent = <<>>
    [] a.op = "search" -> a.value = <<>>
    [] a.op = "getRelevantContext" -> ~a.contextUsed /\ "error" \in DOMAIN a
    [] OTHER -> a.value = Null

\* what the operation returns when the file it reads is taken to be absent
IsAbsenceResult(a) ==
  CASE a.op = "getRecent" -> a.recent = <<>>
    [] a.op = "search" -> a.value = <<>>
    [] a.op = "getConversation" -> a.value = Null
    [] a.op = "getMemoryStats" -> a = StatsAnswer(getStats(createEmptyIndex))
    [] a.op = "getRelevantContext" ->
         /\ "error" \notin DOMAIN a
         /\ IF a.contextUsed THEN Len(a.conversations) < Len(a.sources)
            ELSE a = NoContext("No relevant conversations found")

\* no call has rejected: every call that is over has a result
NoneRejected ==
  /\ \A p \in Recorders :
       call[p].pc = "done" => "rejected" \notin DOMAIN call[p].result
  /\ \A r \in Readers :
       call[r].pc = "answered" => answer[r] # NoAnswer

RECURSIVE PlacedTokens(_)
\* the estimate ceil(chars / 4), summed over the exchange texts in the lines:
\* a whole exchange's text, and of a truncated one the part before the ellipsis
PlacedTokens(lines) ==
  IF lines = <<>> THEN 0
  ELSE LET l == Head(lines)
       IN (CASE l.kind = "exchange" -> estimateTokens(l.chars)
             [] l.kind = "truncated" -> estimateTokens(l.chars - ELLIPSIS_LENGTH)
             [] OTHER -> 0)
          + PlacedTokens(Tail(lines))

\* C21: the context produced by formatContextForInjection is size-bounded: for
\* every list of matches and every maxTokens, the estimated token cost of all
\* exchange text placed in the output, truncated pieces included, plus the
\* header overhead of 10 does not exceed maxTokens.
C21_ContextWithinBudget ==
  ret # Null
    => HEADER_OVERHEAD + PlacedTokens(ret.returned) <= arg.maxTokens

\* the lines of the output that hold a truncated exchange
TruncatedLines(lines) == SelectSeq(lines, LAMBDA l : l.kind = "truncated")

\* the first exchange of the first match does not fit the budget
FirstExchangeExceeds ==
  /\ arg.matches # <<>>
  /\ arg.matches[1].exchanges # <<>>
  /\ HEADER_OVERHEAD
       + estimateTokens(ExchangeTextLength(arg.matches[1].exchanges[1]))
       > arg.maxTokens

TokensBefore(lines, i) ==
  HEADER_OVERHEAD
    + PlacedTokens(SelectSeq(SubSeq(lines, 1, i - 1),
                             LAMBDA l : l.kind = "exchange"))

SurvivingTokens(text) ==
  SelectSeq(tokenize(text), LAMBDA a : a \notin STOP_WORDS)

\* the position of the first occurrence of x in s
FirstOccurrence(s, x) ==
  CHOOSE i \in 1..Len(s) : s[i] = x /\ \A j \in 1..(i - 1) : s[j] # x

\* C23: extractKeywords returns the surviving tokens ordered by descending
\* frequency, and tokens of equal frequency appear in the order of their first
\* occurrence in the text, for every token the tokenizer can produce, tokens
\* made only of digits included.
C23_ByFrequencyThenFirstOccurrence ==
  ret # Null
    => LET tokens == SurvivingTokens(arg.text)
           r == ret.returned
       IN /\ \A i \in 1..Len(r) : Count(tokens, r[i]) > 0
          /\ \A i, j \in 1..Len(r) :
               i < j
                 => \/ Count(tokens, r[i]) > Count(tokens, r[j])
                    \/ /\ Count(tokens, r[i]) = Count(tokens, r[j])
                       /\ FirstOccurrence(tokens, r[i])
                            < FirstOccurrence(tokens, r[j])

\* the keywords of topic t that are tokens of the text
MatchedKeywords(t, text) ==
  {k \in TOPIC_KEYWORDS[t] :
     \E i \in 1..Len(tokenize(text)) : tokenize(text)[i] = k}

\* C24: extractTopics(text) with no existing topics assigns topic T if and
\* only if at least two distinct keywords of T's keyword set occur as tokens
\* of the tokenized text; one matching keyword alone, however often it occurs,
\* never assigns T.
C24_TopicIffTwoKeywords ==
  ret # Null
    => /\ \A t \in DOMAIN TOPIC_KEYWORDS :
            (\E i \in 1..Len(ret.returned) : ret.returned[i] = t)
              <=> (\E k1, k2 \in MatchedKeywords(t, arg.text) : k1 # k2)
       /\ \A i \in 1..Len(ret.returned) : ret.returned[i] \in DOMAIN TOPIC_KEYWORDS

\* a text with one keyword of security written twice and two keywords of
\* database: database is assigned, security is not
C24_OneKeywordTwiceIsNotEnough ==
  /\ ret # Null
  /\ arg.text = <<"JWT", "jwt", "sql", "query">>
  /\ ret.returned = <<"database">>

\* C25: when two recordConversation calls for the same instance overlap,
\* neither fails because of the other: on a file system that rejects nothing,
\* every call that has returned has returned recorded=true, for every
\* interleaving of the temp-file writes and renames of the index file.
C25_OverlappingRecordsBothSucceed ==
  \A p \in Recorders :
    (call[p].pc = "done" /\ failing = {}) => call[p].result.recorded

\* the conversation files whose conversation carries the sessionId
FilesOfSession(sessionId) ==
  {path \in DOMAIN convFiles :
     parseConversationMarkdown(convFiles[path]).sessionId = sessionId}

\* two calls were made, the second one begun while the first was in flight,
\* both with that sessionId, and both have returned
OverlappedInSession(sessionId) ==
  /\ calls = 2
  /\ \A p \in Recorders : call[p].pc = "done" /\ call[p].sessionId = sessionId

\* C26: when two recordConversation calls with the same non-empty sessionId
\* overlap, both exchanges end up in one conversation: after both calls
\* returned, exactly one conversation carries that sessionId and it contains
\* both exchanges.
C26_OverlappingSessionCallsShareConversation ==
  OverlappedInSession("s1")
    => /\ Cardinality(FilesOfSession("s1")) = 1
       /\ \A path \in FilesOfSession("s1") :
            Len(parseConversationMarkdown(convFiles[path]).exchanges) = 2

\* the step is the one by which the call of process p returns recorded=false
\* with an error
ReturnsFailed(p) ==
  /\ call[p].pc \notin {"idle", "done"}
  /\ call'[p].pc = "done"
  /\ "error" \in DOMAIN call'[p].result

\* the ids in the lines of the recent list that the file holds
ListedIds(content) ==
  IF content = NoFile \/ ~Complete(content) THEN {}
  ELSE {content.recent[i].id : i \in 1..Len(content.recent)}

\* C27: a transient failure to read the index file never removes history: the
\* index that a recordConversation call persists, also a call that follows a
\* failed read of index.md made while the cache was expired, still lists every
\* conversation that index.md listed before (the list having room for one
\* more).
C27_FailedIndexReadKeepsHistory ==
  [][\A p \in Recorders :
       (call[p].pc = "index.rename" /\ call'[p].pc = "finish"
          /\ Cardinality(ListedIds(indexFile)) < RecentCap)
         => ListedIds(indexFile) \subseteq ListedIds(indexFile')]_vars

\* C28: a failed record changes nothing on disk: whenever recordConversation
\* returns recorded=false with an error, the conversation the call made (with
\* the call's exchange) is not in the conversation files, which are as before
\* the call, and the step that returns leaves the files as they are.
C28_FailedRecordLeavesDiskAsItWas ==
  [][\A p \in Recorders :
       ReturnsFailed(p)
         => /\ ~ConversationPersisted(p)
            /\ UNCHANGED <<indexFile, convFiles>>]_vars

\* the ids that the index lists under a keyword or a topic or in recent
IndexedIds(indexData) ==
  UNION {Range(indexData.keywords[i].ids) : i \in 1..Len(indexData.keywords)}
    \cup UNION {{indexData.topics[i].entries[j].id :
                   j \in 1..Len(indexData.topics[i].entries)} :
                i \in 1..Len(indexData.topics)}
    \cup RecentIds(indexData)

\* C29: updateIndex does not modify the index it is given: when a
\* recordConversation call that created a conversation fails at saveIndex, the
\* cached index lists that conversation nowhere, not in recent and not under a
\* keyword or a topic, so later search and getRelevantContext calls do not see
\* it.
C29_FailedSaveLeavesCacheAsItWas ==
  [][\A p \in Recorders :
       (ReturnsFailed(p) /\ InSaveIndex(p) /\ call[p].read = Null)
         => call[p].conversation.id \notin IndexedIds(indexCache')]_vars

\* the topic-to-conversation-ids map, the keyword-to-conversation-ids map and
\* the recent list (ids, paths, keywords, in order) of an index
TopicMap(indexData) ==
  {<<indexData.topics[i].topic,
     [j \in 1..Len(indexData.topics[i].entries) |->
        indexData.topics[i].entries[j].id]>> : i \in 1..Len(indexData.topics)}

KeywordMap(indexData) ==
  {<<indexData.keywords[i].keyword, indexData.keywords[i].ids>> :
     i \in 1..Len(indexData.keywords)}

RecentList(indexData) ==
  [i \in 1..Len(indexData.recent) |->
     [id |-> indexData.recent[i].id, path |-> indexData.recent[i].path,
      keywords |-> indexData.recent[i].keywords]]

\* C30: round trip of the index: for every index produced by a sequence of
\* updateIndex calls on recorded conversations (any topic of the taxonomy, any
\* extracted keyword list, an empty one included), loadIndex after saveIndex
\* yields the same topic-to-conversation-ids map, the same
\* keyword-to-conversation-ids map and the same recent list (ids, paths,
\* keywords, order).
C30_IndexRoundTrip ==
  ret # Null
    => /\ TopicMap(ret.returned) = TopicMap(arg.index)
       /\ KeywordMap(ret.returned) = KeywordMap(arg.index)
       /\ RecentList(ret.returned) = RecentList(arg.index)

\* -------------------------------------------------- the sources of a context

\* the answers of getRelevantContext that say the context was used
UsedContexts ==
  {r \in Readers : answer[r].op = "getRelevantContext" /\ answer[r].contextUsed}

\* formatContextForInjection returns "" for no conversation at all
\* (matches.length === 0) and a text with its header otherwise
ContextIsEmpty(a) == a.conversations = <<>>

GatedQuestions == {<<"why", "?">>, <<"who", "are", "you">>}

\* a step that takes getRelevantContext(q) of reader r from its call to its
\* first await or to its return
BeginsContext(r, q) ==
  /\ config.enabled
  /\ call[r].pc = "idle"
  /\ call'[r].question = q
  /\ \/ call'[r].pc \in {"context.load", "context.loadIndex"}
     \/ call'[r].pc = "answered" /\ answer'[r].op = "getRelevantContext"

\* C33: getRelevantContext is gated: when shouldRetrieveContext(question) is
\* false, the call returns contextUsed = false (for this reason and for no
\* other question), reads neither the index file nor any conversation file,
\* and leaves the cached index and its timestamp unchanged.
C33_GatedContextReadsNothing ==
  [][\A r \in Readers :
       /\ \A q \in GatedQuestions :
            BeginsContext(r, q)
              => /\ call'[r].pc = "answered"
                 /\ answer'[r] = NoContext("Question type does not need context")
                 /\ UNCHANGED <<cache, disk, loads>>
       /\ \A q \in FailQuestions \ GatedQuestions :
            BeginsContext(r, q)
              => answer'[r] # NoContext("Question type does not need context")]_vars

\* a question of eleven characters was answered without a context while the
\* cached index had expired and no file could be read
C33_GatedWithExpiredCache ==
  \E r \in Readers :
    /\ call[r].pc = "answered"
    /\ call[r].question = <<"who", "are", "you">>
    /\ answer[r] = NoContext("Question type does not need context")
    /\ Expired(indexCacheTime, now)
    /\ "readFile" \in failing
    /\ ticks > 0
    /\ indexCache # Null

\* -------------------------------------------------- ids listed once

\* no item of a list occurs twice
Distinct(list) ==
  \A i, j \in 1..Len(list) : i # j => list[i] # list[j]

\* a conversation id occurs at most once in the recent list, in each keyword's
\* list of ids and in each topic's list of entries
ListsEachIdOnce(indexData) ==
  /\ Distinct([i \in 1..Len(indexData.recent) |-> indexData.recent[i].id])
  /\ \A k \in 1..Len(indexData.keywords) : Distinct(indexData.keywords[k].ids)
  /\ \A t \in 1..Len(indexData.topics) :
       Distinct([j \in 1..Len(indexData.topics[t].entries) |->
                   indexData.topics[t].entries[j].id])

\* C32: after any sequence of recordConversation calls (new conversations and
\* appends), a conversation id occurs at most once in the recent list, at most
\* once in each keyword's list of ids and at most once in each topic's list of
\* entries: in the cached index, in the index read from index.md and in the
\* index a call is about to save.
C32_EachIdListedOnce ==
  /\ indexCache # Null => ListsEachIdOnce(indexCache)
  /\ ListsEachIdOnce(loadIndex)
  /\ \A p \in Recorders :
       call[p].updatedIndex # Null => ListsEachIdOnce(call[p].updatedIndex)

\* a second exchange was appended to a conversation, and a keyword of the
\* cached index lists that conversation and another one
C32_AppendedAndListedOnce ==
  /\ \A p \in Recorders : call[p].pc \in {"idle", "done"}
  /\ \E i \in 1..Len(log) :
       /\ log[i].result.recorded
       /\ ~log[i].result.isNewConversation
       /\ \E k \in 1..Len(indexCache.keywords) :
            /\ log[i].result.conversationId \in Range(indexCache.keywords[k].ids)
            /\ Len(indexCache.keywords[k].ids) = 2

\* -------------------------------------------------- the stop at 90%

\* the lines of the output that hold an exchange, whole or truncated
IsExchangeLine(l) == l.kind \in {"exchange", "truncated"}

\* C34 as stated: formatContextForInjection hard-stops at 90% of the budget:
\* once the running token estimate is at least 0.9 * maxTokens, no further
\* exchange is added to the output, whether the next exchange belongs to the
\* same match or to a later match.
C34_NothingAddedAfterNinetyPercent ==
  ret # Null
    => \A i \in 1..Len(ret.returned) :
         IsExchangeLine(ret.returned[i])
           => 10 * TokensBefore(ret.returned, i) < 9 * arg.maxTokens

\* the running estimate when the loop over the exchanges of match m has ended
TokensAfterMatch(lines, m) ==
  HEADER_OVERHEAD
    + PlacedTokens(SelectSeq(lines,
                     LAMBDA l : l.kind = "exchange" /\ l.match <= m))

\* C34 amended: formatContextForInjection tests the estimate against 90% of
\* the budget between two matches: once the running token estimate is at least
\* 0.9 * maxTokens when the exchanges of a match have been handled, no exchange
\* of a later match is added to the output; within the same match the next
\* exchange is still added whenever the estimate with it does not exceed
\* maxTokens.
C34_NoLaterMatchAfterNinetyPercent ==
  ret # Null
    => /\ \A i \in 1..Len(ret.returned) :
            IsExchangeLine(ret.returned[i])
              => \A m \in 1..(ret.returned[i].match - 1) :
                   10 * TokensAfterMatch(ret.returned, m) < 9 * arg.maxTokens
       /\ \A i \in 1..Len(ret.returned) :
            LET l == ret.returned[i]
            IN (l.kind = "exchange"
                  /\ l.exchange < Len(arg.matches[l.match].exchanges))
                 => LET next == arg.matches[l.match].exchanges[l.exchange + 1]
                        fits == TokensBefore(ret.returned, i + 1)
                                  + estimateTokens(ExchangeTextLength(next))
                                  <= arg.maxTokens
                    IN fits => /\ ret.returned[i + 1].kind = "exchange"
                               /\ ret.returned[i + 1].match = l.match
                               /\ ret.returned[i + 1].exchange = l.exchange + 1

\* with a budget of 280 the first exchange of the first match took the
\* estimate to 263, over 90%; the second exchange of that match was added
\* all the same, and the second match, whose exchange would have fitted, was
\* left out
C34_SameMatchGoesOnLaterMatchLeftOut ==
  /\ ret # Null
  /\ arg.maxTokens = 280
  /\ Len(arg.matches) = 2
  /\ arg.matches[2].exchanges = <<[question |-> 11, answer |-> 20]>>
  /\ Len(ret.returned) = 4
  /\ ret.returned[2] = ExchangeLine(1, 1, 1009)
  /\ ret.returned[3] = ExchangeLine(1, 2, 40)
  /\ TokensBefore(ret.returned, 3) = 263

\* -------------------------------------------------- recency only helps

\* every scored conversation with its keyword score plus topic bonus, in the
\* order the scores were entered
BaseScores ==
  findRelevantConversations(arg.question, arg.index,
    [recencyBoost |-> 0, minScore |-> 0,
     maxResults |-> Len(arg.index.topics) + Len(arg.index.keywords)
                      + Len(arg.index.recent) + 9])

\* the position of the id in recent, and one past its end for an id that
\* recent does not hold
RecentPosition(id) ==
  LET hits == {i \in 1..Len(arg.index.recent) : arg.index.recent[i].id = id}
  IN IF hits = {} THEN Len(arg.index.recent) + 1
     ELSE CHOOSE i \in hits : \A j \in hits : i <= j

\* the position of the id in a list of scored entries
RankIn(scored, id) == CHOOSE i \in 1..Len(scored) : scored[i].id = id

\* C35: recency only helps: of two conversations with equal keyword score and
\* equal topic bonus, the one that is earlier in recent never ranks below the
\* one that is later in recent or absent from it (it is returned whenever the
\* other is, and before it), and a conversation that recent does not hold gets
\* exactly its keyword score plus its topic bonus.
C35_RecencyOnlyHelps ==
  ret # Null
    => LET out == ret.returned
           base == BaseScores
       IN /\ \A j \in 1..Len(out), a \in 1..Len(base) :
               (/\ base[a].score = ScoreOf(base, out[j].id)
                /\ RecentPosition(base[a].id) < RecentPosition(out[j].id))
                 => \E i \in 1..(j - 1) : out[i].id = base[a].id
          /\ \A j \in 1..Len(out) :
               RecentPosition(out[j].id) > Len(arg.index.recent)
                 => out[j].score = ScoreOf(base, out[j].id)

\* two conversations of equal keyword score and topic bonus were returned, the
\* one earlier in recent first although its score was entered second, and
\* after them a conversation that recent does not hold, with its keyword score
\* plus topic bonus as it was
C35_EarlierInRecentFirst ==
  /\ ret # Null
  /\ Len(ret.returned) = 3
  /\ LET out == ret.returned
         base == BaseScores
     IN /\ ScoreOf(base, out[1].id) = ScoreOf(base, out[2].id)
        /\ RecentPosition(out[1].id) < RecentPosition(out[2].id)
        /\ RankIn(base, out[1].id) > RankIn(base, out[2].id)
        /\ RecentPosition(out[3].id) > Len(arg.index.recent)
        /\ out[3].score = ScoreOf(base, out[3].id)
        /\ out[3].score > 0

\* -------------------------------------------------- initialization, again

InFlight == {q \in Requests : requests[q].pc = "invoking"}

\* activeRequests is the number of calls in flight and at most MAX_CONCURRENT;
\* a request that was admitted and answered has decremented the counter once,
\* a request in flight or rejected not at all
CounterIsInFlight ==
  /\ activeRequests = Cardinality(InFlight)
  /\ activeRequests <= MAX_CONCURRENT
  /\ \A q \in Requests :
       requests[q].released
         = IF requests[q].pc = "responded" /\ requests[q].status # 503
           THEN 1 ELSE 0

\* C37: in the HTTP server, activeRequests always equals the number of
\* invokeClaudeCode calls in flight and never exceeds MAX_CONCURRENT: a
\* request that arrives at capacity is rejected (503) without a change of the
\* counter, and every admitted request decrements the counter exactly once,
\* whether its call succeeds, fails or times out.
C37_CounterIsCallsInFlight ==
  [][/\ CounterIsInFlight
     /\ CounterIsInFlight'
     /\ \A q \in Requests :
          /\ (requests[q].pc = "idle" /\ requests'[q].pc # "idle")
               => IF activeRequests = MAX_CONCURRENT
                  THEN /\ requests'[q].status = 503
                       /\ UNCHANGED activeRequests
                  ELSE /\ requests'[q].pc = "invoking"
                       /\ activeRequests' = activeRequests + 1
          /\ (requests[q].pc = "invoking" /\ requests'[q].pc # "invoking")
               => /\ requests'[q].status \in {200, 500, 504}
                  /\ activeRequests' = activeRequests - 1]_vars

\* a call has timed out and its request has decremented the counter once;
\* two later calls are in flight, the server is at capacity, and a request
\* that arrived at capacity was rejected with 503
C37_AtCapacityAfterTimeout ==
  /\ activeRequests = MAX_CONCURRENT
  /\ Cardinality(InFlight) = MAX_CONCURRENT
  /\ \E q \in Requests : requests[q].status = 503
  /\ \E q \in Requests : requests[q].status = 504 /\ requests[q].released = 1

\* C38: at any time at most MAX_CONCURRENT Claude child processes spawned for
\* /ask requests are alive, for every sequence of requests, requests whose
\* invocation timed out included.
C38_AtMostMaxConcurrentChildren ==
  Cardinality({q \in Requests : requests[q].child \in Alive}) <= MAX_CONCURRENT

====
